---- MODULE Spec2Model ----
(***************************************************************************)
(* Model of the 24Multiplayer room servers.                                *)
(*                                                                         *)
(* Part 1: the REST room route (src/app/api/rooms/[roomId]/route.ts).      *)
(* Every request handler is an async function: it awaits redis.get in      *)
(* loadState, mutates its private copy of the room synchronously and       *)
(* awaits redis.set in saveState.  Handlers of different requests          *)
(* interleave at these awaits, so a handler is modelled as a small         *)
(* process over the shared store.                                          *)
(***************************************************************************)
EXTENDS Integers, Sequences, FiniteSets, TLC

\* ------------------------------------------------------------------------
\* Input alphabets
\* ------------------------------------------------------------------------

\* Concurrently running request handlers of the REST route.  A request is
\* served by "h1" unless "h1" is busy.
Handlers == {"h1", "h2"}

RoomIds == {"r1"}

\* The room ids Redis can hold a key room:<id> for; the requests of the
\* specifications of one room address those of RoomIds only.
AllRoomIds == {"r1", "r2"}

PlayerIds == {"alice", "bob"}

Names == {"x", "y"}

\* The value Solver.generatePuzzle returns: a handler never inspects the four
\* numbers, so one representative quadruple stands for every puzzle.
Puzzles == {<<1, 2, 3, 4>>}

\* A JS value that is undefined / missing in the request body.
Absent == "absent"

\* targetScore?: number -- undefined in the request body.
Undefined == -1

\* targetScore values carried by requests.
TargetInputs == {Undefined, 0, 2}

\* loadState: Array.from({ length: 5 }, ...)
QUEUE_SIZE == 5

\* loadState: targetScore ?? 5
DEFAULT_TARGET == 5

\* The clients stop submitting once this many solutions are stored.
MaxSubmits == 3

\* How many requests may arrive while another handler is still running.
MaxOverlaps == 1

None == <<>>

Some(x) == <<x>>

\* winner: string | null
Null == "null"

VARIABLES
    srooms,  \* socket route (join_room server): room id -> None or Some(GameState)
    prooms,  \* push server with room settings: room id -> None or Some(Room)
    pgone,   \* push server: the sockets that have disconnected
    pdeleted, \* push server: the phases in which rooms were deleted (history only)
    store,   \* Redis: room id -> None or Some(GameState) under key room:<id>
    pc,      \* handler -> "idle" | "got" | "loaded" | "saved"
    req,     \* handler -> the request being processed
    st,      \* handler -> None or Some(its private GameState)
    last,    \* the response the last step returned: [action, status], or NoResponse
    overlaps, \* number of requests received while another handler was running
    up,      \* polling client: the room route and its Redis are reachable
    srv,     \* polling client: the room as the route holds it, [rev, time, me, ready]
    now,     \* polling client: Date.now()
    hook,    \* polling client: the useState values of usePollingMultiplayer
    localRoomStore, \* polling client: None or Some(snapshot) for the room
    fetchQueue,     \* polling client: the pending fetchState call of the room
    actionQueue,    \* polling client: action -> the pending makeRequest call
    pollpc,  \* polling client: "start" | "timer" | "awaiting" | "hung"
    joinpc,  \* polling client: position of join()
    attempts, \* polling client: initialConnectionAttempts of the running effect
    zombie,  \* polling client: the dropped poll that waits for its join()
    rooms,   \* join-room server: room id -> None or Some(Room)
    listeners, \* join-room server: socket -> the room ids of its join-room calls
    closed   \* join-room server: the sockets that have disconnected

restVars == <<store, pc, req, st, last, overlaps>>

sockVars == <<srooms>>

pushVars == <<prooms, pgone, pdeleted>>

clientVars == <<up, srv, now, hook, localRoomStore, fetchQueue, actionQueue,
                pollpc, joinpc, attempts, zombie>>

roomVars == <<rooms, listeners, closed>>

vars == <<store, pc, req, st, last, overlaps, srooms, prooms, pgone, pdeleted,
          up, srv, now, hook, localRoomStore, fetchQueue, actionQueue,
          pollpc, joinpc, attempts, zombie, rooms, listeners, closed>>

\* Each server leaves the state of the other servers alone.
RestFrame == UNCHANGED <<sockVars, pushVars, clientVars, roomVars>>

SockFrame == UNCHANGED <<restVars, pushVars, clientVars, roomVars>>

PushFrame == UNCHANGED <<restVars, sockVars, clientVars, roomVars>>

ClientFrame == UNCHANGED <<restVars, sockVars, pushVars, roomVars>>

RoomFrame == UNCHANGED <<restVars, sockVars, pushVars, clientVars>>

\* ------------------------------------------------------------------------
\* Helpers on GameState (rooms/[roomId]/route.ts)
\* ------------------------------------------------------------------------

\* Faulty variant of FindIndex: the player is never found.
FindIndexOfNobody(players, playerId) == 0

\* players.findIndex(p => p.id === playerId); 0 stands for JS -1.
FindIndex(players, playerId) ==
    IF \E i \in 1..Len(players) : players[i].id = playerId
    THEN CHOOSE i \in 1..Len(players) :
            /\ players[i].id = playerId
            /\ \A j \in 1..(i - 1) : players[j].id # playerId
    ELSE 0

\* JS truthiness of an optional number: undefined and 0 are falsy.
Truthy(n) == n # Undefined /\ n # 0

\* loadState, raw found: validatedState (only targetScore is not copied as is).
ValidatedState(state, targetScore) ==
    [state EXCEPT !.targetScore =
        IF Truthy(state.targetScore) THEN state.targetScore
        ELSE IF Truthy(targetScore) THEN targetScore
        ELSE DEFAULT_TARGET]

\* loadState, raw missing: the initial state.
InitialState(roomId, targetScore, queue) ==
    [roomId        |-> roomId,
     players       |-> <<>>,
     isActive      |-> FALSE,
     currentPuzzle |-> <<>>,
     puzzleQueue   |-> queue,
     targetScore   |-> IF targetScore = Undefined THEN DEFAULT_TARGET ELSE targetScore,
     gameOver      |-> FALSE,
     winner        |-> Null,
     winnerDetails |-> None,
     lastSolution  |-> None]

\* saveState: stateToSave (targetScore: Number(state.targetScore) || 5).
StateToSave(state) ==
    [state EXCEPT !.targetScore =
        IF Truthy(state.targetScore) THEN state.targetScore ELSE DEFAULT_TARGET]

\* Faulty variant of SaveKey: every room is saved under the key of r1.
SaveKeyOfFirstRoom(state) == "r1"

\* saveState: const key = `room:${state.roomId}`
SaveKey(state) == state.roomId

\* Sequences of n generated puzzles.
PuzzleSeqs(n) == [1..n -> Puzzles]

\* Faulty variant of NameTaken: no name is ever taken.
NameNeverTaken(state, playerId, playerName) == FALSE

\* join: state.players.some(p => p.name === playerName && p.id !== playerId)
NameTaken(state, playerId, playerName) ==
    \E i \in 1..Len(state.players) :
        state.players[i].name = playerName /\ state.players[i].id # playerId

\* Faulty variant of Rejoin: the rejoining player is pushed as a new entry.
RejoinAsNewEntry(state, idx, playerName) ==
    [state EXCEPT !.players =
        Append(@, [id |-> state.players[idx].id, name |-> playerName,
                   ready |-> FALSE, score |-> 0])]

\* join, playerIndex >= 0: rename and reset ready.
Rejoin(state, idx, playerName) ==
    [state EXCEPT !.players[idx].name = playerName,
                  !.players[idx].ready = FALSE]

\* join, new player.
AddPlayer(state, playerId, playerName) ==
    [state EXCEPT !.players =
        Append(@, [id |-> playerId, name |-> playerName, ready |-> FALSE, score |-> 0])]

\* The join branch: the response status and the state to save.
JoinResult(state, playerId, playerName) ==
    LET idx == FindIndex(state.players, playerId) IN
    IF NameTaken(state, playerId, playerName) THEN [status |-> 400, state |-> state]
    ELSE IF idx > 0 THEN [status |-> 200, state |-> Rejoin(state, idx, playerName)]
    ELSE IF state.isActive THEN [status |-> 400, state |-> state]
    ELSE IF state.gameOver THEN [status |-> 400, state |-> state]
    ELSE [status |-> 200, state |-> AddPlayer(state, playerId, playerName)]

\* ready: players.length >= 2 && players.every(p => p.ready)
CanStart(state) ==
    /\ Len(state.players) >= 2
    /\ \A i \in 1..Len(state.players) : state.players[i].ready

\* Faulty variant of StartGame: no puzzle is taken from the queue.
StartGameWithoutPuzzle(state, fill) == [state EXCEPT !.isActive = TRUE]

\* ready: isActive = true; refill an empty queue; currentPuzzle = queue.shift().
StartGame(state, fill) ==
    LET q == IF Len(state.puzzleQueue) = 0 THEN fill ELSE state.puzzleQueue IN
    [state EXCEPT !.isActive = TRUE,
                  !.currentPuzzle = Head(q),
                  !.puzzleQueue = Tail(q)]

\* Faulty variant of ReadyResult: the player is not looked up.
ReadyResultWithoutLookup(state, playerId, fill) == [status |-> 200, state |-> state]

\* The ready branch.
ReadyResult(state, playerId, fill) ==
    LET idx == FindIndex(state.players, playerId) IN
    IF idx = 0 THEN [status |-> 404, state |-> state]
    ELSE LET s1 == [state EXCEPT !.players[idx].ready = TRUE] IN
         IF CanStart(s1) /\ ~s1.isActive
         THEN [status |-> 200, state |-> StartGame(s1, fill)]
         ELSE [status |-> 200, state |-> s1]

\* Faulty variant of HasWon: the comparison is strict.
HasWonStrictly(player, state) == player.score > state.targetScore

\* submit: player.score >= state.targetScore
HasWon(player, state) == player.score >= state.targetScore

\* submit, game over branch.
EndGame(state, player) ==
    [state EXCEPT !.gameOver = TRUE,
                  !.winner = player.id,
                  !.winnerDetails = Some(player),
                  !.isActive = FALSE]

\* submit, next puzzle branch; g1 is generated only for an empty queue.
NextPuzzle(state, g1, g2) ==
    LET q == IF Len(state.puzzleQueue) = 0 THEN <<g1>> ELSE state.puzzleQueue IN
    [state EXCEPT !.currentPuzzle = Head(q),
                  !.puzzleQueue = Append(Tail(q), g2)]

\* Faulty variant of Scored: the score is incremented twice.
ScoredTwice(player) == [player EXCEPT !.score = @ + 2]

\* submit: player.score += 1
Scored(player) == [player EXCEPT !.score = @ + 1]

\* Faulty variant of SubmitRejected: gameOver is not consulted.
SubmitRejectedUnlessActive(state) == ~state.isActive

\* submit: the guard that rejects the action.
SubmitRejected(state) == ~state.isActive \/ state.gameOver

\* The submit branch.
SubmitResult(state, playerId, solution, g1, g2) ==
    LET idx == FindIndex(state.players, playerId) IN
    IF idx = 0 THEN [status |-> 404, state |-> state]
    ELSE IF SubmitRejected(state) THEN [status |-> 400, state |-> state]
    ELSE LET player == Scored(state.players[idx])
             s1 == [state EXCEPT
                      !.players[idx] = player,
                      !.lastSolution =
                          Some([playerName |-> player.name, solution |-> solution])]
         IN  IF HasWon(player, s1)
             THEN [status |-> 200, state |-> EndGame(s1, player)]
             ELSE [status |-> 200, state |-> NextPuzzle(s1, g1, g2)]

\* ------------------------------------------------------------------------
\* Requests
\* ------------------------------------------------------------------------

\* The body of a request; roomId (the last segment of the URL) is filled in
\* when a handler takes the request.
Request(action, playerId, playerName, targetScore, solution) ==
    [roomId |-> Absent, action |-> action, playerId |-> playerId,
     playerName |-> playerName, targetScore |-> targetScore, solution |-> solution]

JoinRequests ==
    {Request("join", p, n, t, Absent) : p \in PlayerIds, n \in Names, t \in TargetInputs}

ReadyRequests ==
    {Request("ready", p, Absent, Undefined, Absent) : p \in PlayerIds}

SubmitRequests ==
    {Request("submit", p, Absent, Undefined, "6*4") : p \in PlayerIds}

\* Requests the field validation of POST rejects, and one with an unknown action.
MalformedRequests ==
    {Request(Absent, "alice", Absent, Undefined, Absent),
     Request("ready", Absent, Absent, Undefined, Absent),
     Request("join", "alice", Absent, Undefined, Absent),
     Request("submit", "alice", Absent, Undefined, Absent),
     Request("bogus", "alice", Absent, Undefined, Absent)}

PostRequests == JoinRequests \cup ReadyRequests \cup SubmitRequests

\* GET carries the room id only; it calls loadState(roomId).
GetRequest == Request("get", Absent, Absent, Undefined, Absent)

NoRequest == Request("none", Absent, Absent, Undefined, Absent)

\* Faulty variant of MissingField: the solution of a submit is not required.
MissingFieldButSolution(r) ==
    \/ r.action = Absent
    \/ r.playerId = Absent
    \/ (r.action = "join" /\ r.playerName = Absent)

\* POST: "Validate required fields based on action".
MissingField(r) ==
    \/ r.action = Absent
    \/ r.playerId = Absent
    \/ (r.action = "join" /\ r.playerName = Absent)
    \/ (r.action = "submit" /\ r.solution = Absent)

\* No response: the last step of the system returned none.
NoResponse == [action |-> "none", status |-> 0]

\* The response a handler returns.
Response(h, r, status) ==
    [action |-> r.action, status |-> status]

\* The handler returns: it goes back to idle and drops its private copy.
Return(h, r, status) ==
    /\ pc' = [pc EXCEPT ![h] = "idle"]
    /\ req' = [req EXCEPT ![h] = NoRequest]
    /\ st' = [st EXCEPT ![h] = None]
    /\ last' = Response(h, r, status)
    /\ UNCHANGED overlaps

\* Status of a failed loadState: GET answers 503 on a Redis error, POST 500.
LoadErrorStatus(r) == IF r.action = "get" THEN 503 ELSE 500

\* ------------------------------------------------------------------------
\* Actions of one handler on room rid
\* ------------------------------------------------------------------------

\* POST with a missing field: 400 before loadState.
RejectMalformed(h, rid, r) ==
    /\ pc[h] = "idle"
    /\ r \in MalformedRequests
    /\ MissingField(r)
    /\ Return(h, r, 400)
    /\ UNCHANGED store
    /\ RestFrame

\* loadState: getRedis or redis.get throws.
LoadFails(h, rid, r) ==
    /\ pc[h] = "idle"
    /\ r = GetRequest \/ ~MissingField(r)
    /\ Return(h, r, LoadErrorStatus(r))
    /\ UNCHANGED store
    /\ RestFrame

\* GET, loadState finds the room: the validated state is returned.
GetFound(h, rid, r) ==
    /\ pc[h] = "idle"
    /\ r = GetRequest
    /\ store[rid] # None
    /\ Return(h, r, 200)
    /\ UNCHANGED store
    /\ RestFrame

\* Sum of the scores of a player list.
RECURSIVE TotalScore(_)
TotalScore(players) ==
    IF players = <<>> THEN 0 ELSE Head(players).score + TotalScore(Tail(players))

\* The clients send no submit once MaxSubmits solutions are stored.
WithinBounds(rid, r) ==
    r.action = "submit" => TotalScore(store[rid][1].players) < MaxSubmits

\* Some other handler is between its loadState and its last saveState.
Overlapping(h) == \E g \in Handlers \ {h} : pc[g] # "idle"

\* A request is taken by a free handler; at most MaxOverlaps requests start
\* while another one is still being processed.
Begin(h) ==
    /\ (h = "h2" => pc["h1"] # "idle")
    /\ IF Overlapping(h)
       THEN overlaps < MaxOverlaps /\ overlaps' = overlaps + 1
       ELSE UNCHANGED overlaps

\* POST, loadState finds the room (redis.get returns raw).
LoadFound(h, rid, r) ==
    /\ pc[h] = "idle"
    /\ r # GetRequest
    /\ ~MissingField(r)
    /\ store[rid] # None
    /\ WithinBounds(rid, r)
    /\ Begin(h)
    /\ pc' = [pc EXCEPT ![h] = "loaded"]
    /\ req' = [req EXCEPT ![h] = [r EXCEPT !.roomId = rid, !.targetScore = Undefined]]
    /\ st' = [st EXCEPT ![h] = Some(ValidatedState(store[rid][1], r.targetScore))]
    /\ last' = NoResponse
    /\ UNCHANGED store
    /\ RestFrame

\* loadState, redis.get returns null: the handler goes on to create the room.
LoadMissing(h, rid, r) ==
    /\ pc[h] = "idle"
    /\ r = GetRequest \/ ~MissingField(r)
    /\ store[rid] = None
    /\ Begin(h)
    /\ pc' = [pc EXCEPT ![h] = "got"]
    /\ req' = [req EXCEPT ![h] = [r EXCEPT !.roomId = rid]]
    /\ last' = NoResponse
    /\ UNCHANGED <<store, st>>
    /\ RestFrame

\* loadState: redis.set(key, initial state) succeeds.
CreateRoom(h, rid) ==
    /\ pc[h] = "got"
    /\ req[h].roomId = rid
    /\ \E queue \in PuzzleSeqs(QUEUE_SIZE) :
          LET state == InitialState(rid, req[h].targetScore, queue) IN
          /\ store' = [store EXCEPT ![rid] = Some(state)]
          /\ IF req[h].action = "get"
             THEN Return(h, req[h], 200)
             ELSE /\ pc' = [pc EXCEPT ![h] = "loaded"]
                  /\ req' = [req EXCEPT ![h].targetScore = Undefined]
                  /\ st' = [st EXCEPT ![h] = Some(state)]
                  /\ last' = NoResponse
                  /\ UNCHANGED overlaps
    /\ RestFrame

\* loadState: redis.set of the initial state throws or times out.
CreateRoomFails(h, rid) ==
    /\ pc[h] = "got"
    /\ req[h].roomId = rid
    /\ Return(h, req[h], LoadErrorStatus(req[h]))
    /\ UNCHANGED store
    /\ RestFrame

\* The branch of POST taken for the loaded state.
Result(state, r, fill, g1, g2) ==
    IF r.action = "join" THEN JoinResult(state, r.playerId, r.playerName)
    ELSE IF r.action = "ready" THEN ReadyResult(state, r.playerId, fill)
    ELSE IF r.action = "submit" THEN SubmitResult(state, r.playerId, r.solution, g1, g2)
    ELSE [status |-> 400, state |-> state]

\* Generated puzzles a branch may consume (only those it reads are varied).
Fills(state, r) ==
    IF r.action = "ready" /\ Len(state.puzzleQueue) = 0
    THEN PuzzleSeqs(QUEUE_SIZE) ELSE {[i \in 1..QUEUE_SIZE |-> <<1, 2, 3, 4>>]}

FirstGen(state, r) ==
    IF r.action = "submit" /\ Len(state.puzzleQueue) = 0 THEN Puzzles ELSE {<<1, 2, 3, 4>>}

SecondGen(state, r) ==
    IF r.action = "submit" THEN Puzzles ELSE {<<1, 2, 3, 4>>}

\* POST: the action is rejected (400 / 404) and nothing is saved.
RejectAction(h, rid) ==
    /\ pc[h] = "loaded"
    /\ req[h].roomId = rid
    /\ LET res == Result(st[h][1], req[h], <<>>, <<>>, <<>>) IN
          /\ res.status # 200
          /\ Return(h, req[h], res.status)
    /\ UNCHANGED store
    /\ RestFrame

\* POST: the action is applied and saveState succeeds.  join saves inside its
\* branch and goes on to the final saveState; ready and submit return.
ApplyAction(h, rid) ==
    /\ pc[h] = "loaded"
    /\ req[h].roomId = rid
    /\ \E fill \in Fills(st[h][1], req[h]),
          g1 \in FirstGen(st[h][1], req[h]), g2 \in SecondGen(st[h][1], req[h]) :
          LET res == Result(st[h][1], req[h], fill, g1, g2) IN
          /\ res.status = 200
          /\ store' = [store EXCEPT ![SaveKey(res.state)] = Some(StateToSave(res.state))]
          /\ IF req[h].action = "join"
             THEN /\ pc' = [pc EXCEPT ![h] = "saved"]
                  /\ st' = [st EXCEPT ![h] = Some(res.state)]
                  /\ last' = NoResponse
                  /\ UNCHANGED <<req, overlaps>>
             ELSE Return(h, req[h], 200)
    /\ RestFrame

\* POST: the action is applied to the private copy but saveState throws;
\* written tells whether redis.set had taken effect before the failure.
ApplyActionSaveFails(h, rid) ==
    /\ pc[h] = "loaded"
    /\ req[h].roomId = rid
    /\ \E fill \in Fills(st[h][1], req[h]),
          g1 \in FirstGen(st[h][1], req[h]), g2 \in SecondGen(st[h][1], req[h]),
          written \in BOOLEAN :
          LET res == Result(st[h][1], req[h], fill, g1, g2) IN
          /\ res.status = 200
          /\ store' = IF written
                      THEN [store EXCEPT ![SaveKey(res.state)] =
                                Some(StateToSave(res.state))]
                      ELSE store
          /\ Return(h, req[h], 500)
    /\ RestFrame

\* join: the final saveState succeeds and the state is returned.
FinalSave(h, rid) ==
    /\ pc[h] = "saved"
    /\ req[h].roomId = rid
    /\ store' = [store EXCEPT ![SaveKey(st[h][1])] = Some(StateToSave(st[h][1]))]
    /\ Return(h, req[h], 200)
    /\ RestFrame

\* join: the final saveState throws.
FinalSaveFails(h, rid) ==
    /\ pc[h] = "saved"
    /\ req[h].roomId = rid
    /\ \E written \in BOOLEAN :
          store' = IF written
                   THEN [store EXCEPT ![SaveKey(st[h][1])] =
                             Some(StateToSave(st[h][1]))]
                   ELSE store
    /\ Return(h, req[h], 500)
    /\ RestFrame

RestInit ==
    /\ store = [rid \in AllRoomIds |-> None]
    /\ pc = [h \in Handlers |-> "idle"]
    /\ req = [h \in Handlers |-> NoRequest]
    /\ st = [h \in Handlers |-> None]
    /\ last = NoResponse
    /\ overlaps = 0

\* The REST route with Redis reachable and well-formed request bodies.
RestNext ==
    \E h \in Handlers, rid \in RoomIds :
        \/ \E r \in PostRequests \cup {GetRequest} :
              \/ GetFound(h, rid, r)
              \/ LoadFound(h, rid, r)
              \/ LoadMissing(h, rid, r)
        \/ CreateRoom(h, rid)
        \/ RejectAction(h, rid)
        \/ ApplyAction(h, rid)
        \/ FinalSave(h, rid)

\* The REST route with requests for two rooms: each player joins with one
\* name and a join carries the targetScore 2; room r2 is addressed by GET
\* and by the requests of bob.
TwoRoomsRequests(rid) ==
    {r \in PostRequests \cup {GetRequest} :
        /\ r.action = "join" =>
              /\ r.playerName = (IF r.playerId = "alice" THEN "x" ELSE "y")
              /\ r.targetScore = 2
        /\ rid \notin RoomIds => r.playerId \in {"bob", Absent}}

\* The requests that overlap are requests for different rooms.
NotBusy(h, rid) ==
    \A g \in Handlers \ {h} : pc[g] # "idle" => req[g].roomId # rid

TwoRoomsNext ==
    \E h \in Handlers, rid \in AllRoomIds :
        \/ \E r \in TwoRoomsRequests(rid) :
              /\ NotBusy(h, rid)
              /\ \/ GetFound(h, rid, r)
                 \/ LoadFound(h, rid, r)
                 \/ LoadMissing(h, rid, r)
        \/ CreateRoom(h, rid)
        \/ RejectAction(h, rid)
        \/ ApplyAction(h, rid)
        \/ FinalSave(h, rid)

\* The REST route served by one handler at a time, with malformed request
\* bodies and with Redis operations that may fail.
FaultsNext ==
    \E rid \in RoomIds :
        \/ \E r \in PostRequests \cup MalformedRequests \cup {GetRequest} :
              \/ RejectMalformed("h1", rid, r)
              \/ LoadFails("h1", rid, r)
              \/ GetFound("h1", rid, r)
              \/ LoadFound("h1", rid, r)
              \/ LoadMissing("h1", rid, r)
        \/ CreateRoom("h1", rid)
        \/ CreateRoomFails("h1", rid)
        \/ RejectAction("h1", rid)
        \/ ApplyAction("h1", rid)
        \/ ApplyActionSaveFails("h1", rid)
        \/ FinalSave("h1", rid)
        \/ FinalSaveFails("h1", rid)

\* ------------------------------------------------------------------------
\* Part 2: the socket route with join_room / player_ready / submit_solution
\* (src/app/api/socket/route.ts, second server).  The rooms live in a Map in
\* memory and every event handler runs to completion, so each is one action.
\* ------------------------------------------------------------------------

\* socket.id of the connected clients.
Sockets == {"alice", "bob", "carol"}

\* join_room: Array.from({ length: 10 }, ...)
SOCK_QUEUE_SIZE == 10

\* array.shift() on a queue: the head, or undefined (<<>>) when it is empty.
Shift(queue) == IF Len(queue) = 0 THEN <<>> ELSE Head(queue)

Rest(queue) == IF Len(queue) = 0 THEN <<>> ELSE Tail(queue)

\* join_room: the state of a new room (targetScore = 5 by default).
SockNewRoom(rid, sock, targetScore, queue) ==
    [roomId        |-> rid,
     creatorId     |-> sock,
     players       |-> <<>>,
     isActive      |-> FALSE,
     currentPuzzle |-> <<>>,
     puzzleQueue   |-> queue,
     targetScore   |-> IF targetScore = Undefined THEN DEFAULT_TARGET ELSE targetScore,
     gameOver      |-> FALSE,
     winner        |-> Null,
     winnerDetails |-> None,
     lastSolution  |-> None]

\* join_room: rename a player already in the room, or push a new one.
SockAddPlayer(state, sock, playerName) ==
    LET idx == FindIndex(state.players, sock) IN
    IF idx > 0 THEN [state EXCEPT !.players[idx].name = playerName]
    ELSE AddPlayer(state, sock, playerName)

\* player_ready
SockReadyState(state, sock) ==
    LET idx == FindIndex(state.players, sock)
        s1 == IF idx > 0 THEN [state EXCEPT !.players[idx].ready = TRUE] ELSE state
    IN  IF CanStart(s1) /\ ~s1.isActive
        THEN [s1 EXCEPT !.isActive = TRUE,
                        !.currentPuzzle = Shift(s1.puzzleQueue),
                        !.puzzleQueue = Rest(s1.puzzleQueue)]
        ELSE s1

\* submit_solution: no check of isActive or gameOver precedes the increment.
SockSubmitState(state, idx, solution, g) ==
    LET player == Scored(state.players[idx])
        s1 == [state EXCEPT
                 !.players[idx] = player,
                 !.lastSolution =
                     Some([playerName |-> player.name, solution |-> solution])]
    IN  IF HasWon(player, s1)
        THEN EndGame(s1, player)
        ELSE [s1 EXCEPT !.currentPuzzle = Shift(s1.puzzleQueue),
                        !.puzzleQueue = Append(Rest(s1.puzzleQueue), g)]

SockJoin(sock, rid, playerName, targetScore) ==
    /\ \E queue \in PuzzleSeqs(SOCK_QUEUE_SIZE) :
          LET state == IF srooms[rid] = None
                       THEN SockNewRoom(rid, sock, targetScore, queue)
                       ELSE srooms[rid][1]
          IN  srooms' = [srooms EXCEPT ![rid] = Some(SockAddPlayer(state, sock, playerName))]
    /\ SockFrame

SockReady(sock, rid) ==
    /\ srooms[rid] # None
    /\ srooms' = [srooms EXCEPT ![rid] = Some(SockReadyState(srooms[rid][1], sock))]
    /\ SockFrame

SockSubmit(sock, rid, solution) ==
    /\ srooms[rid] # None
    /\ FindIndex(srooms[rid][1].players, sock) > 0
    /\ TotalScore(srooms[rid][1].players) < MaxSubmits
    /\ \E g \in Puzzles :
          srooms' = [srooms EXCEPT ![rid] =
              Some(SockSubmitState(srooms[rid][1],
                                   FindIndex(srooms[rid][1].players, sock), solution, g))]
    /\ SockFrame

SockInit == srooms = [rid \in RoomIds |-> None]

SockNext ==
    \E sock \in Sockets, rid \in RoomIds :
        \/ \E n \in Names, t \in TargetInputs : SockJoin(sock, rid, n, t)
        \/ SockReady(sock, rid)
        \/ SockSubmit(sock, rid, "6*4")

\* ------------------------------------------------------------------------
\* Part 3: the push server with room settings and disconnect handling
\* (src/unnamed/part_007).  Rooms live in a Map in memory; every event
\* handler runs to completion.
\* ------------------------------------------------------------------------

\* socket.id of the clients of the push server; an id is never reused after
\* its socket has disconnected.
PushSockets == {"alice", "bob", "carol"}

\* join_room: a new room (currentPuzzle generated, queue of 10).
PushNewRoom(rid, sock, targetScore, puzzle, queue) ==
    [roomId        |-> rid,
     creatorId     |-> sock,
     players       |-> <<>>,
     isActive      |-> FALSE,
     currentPuzzle |-> puzzle,
     targetScore   |-> IF targetScore = Undefined THEN DEFAULT_TARGET ELSE targetScore,
     gameOver      |-> FALSE,
     winner        |-> Null,
     winnerDetails |-> None,
     lastSolution  |-> None,
     puzzleQueue   |-> queue]

\* player_ready: the start shifts the queue and pushes a new puzzle.
PushReadyState(room, sock, g) ==
    LET idx == FindIndex(room.players, sock)
        r1 == IF idx > 0 THEN [room EXCEPT !.players[idx].ready = TRUE] ELSE room
    IN  IF CanStart(r1) /\ ~r1.isActive
        THEN [r1 EXCEPT !.isActive = TRUE,
                        !.currentPuzzle = Shift(r1.puzzleQueue),
                        !.puzzleQueue = Append(Rest(r1.puzzleQueue), g)]
        ELSE r1

\* submit_solution: the winning branch leaves isActive as it is.
PushSubmitState(room, idx, solution, g) ==
    LET player == Scored(room.players[idx])
        r1 == [room EXCEPT
                 !.players[idx] = player,
                 !.lastSolution =
                     Some([playerName |-> player.name, solution |-> solution])]
    IN  IF HasWon(player, r1)
        THEN [r1 EXCEPT !.gameOver = TRUE,
                        !.winner = player.id,
                        !.winnerDetails = Some(player)]
        ELSE [r1 EXCEPT !.currentPuzzle = Shift(r1.puzzleQueue),
                        !.puzzleQueue = Append(Rest(r1.puzzleQueue), g)]

\* players.splice(playerIndex, 1)
RemoveAt(players, idx) ==
    [i \in 1..(Len(players) - 1) |-> IF i < idx THEN players[i] ELSE players[i + 1]]

\* Faulty variant of PushAfterDisconnect: the empty room is kept.
PushAfterDisconnectKeepsRoom(slot, sock) ==
    IF slot = None THEN None
    ELSE LET room == slot[1]
             idx == FindIndex(room.players, sock)
         IN  IF idx = 0 THEN slot
             ELSE Some([room EXCEPT !.players = RemoveAt(room.players, idx)])

\* The phase of a room of the push server (gameOver leaves isActive set).
PushPhase(room) ==
    IF room.gameOver THEN "Complete"
    ELSE IF room.isActive THEN "Active" ELSE "Lobby"

\* disconnect, for one room: None when the room is deleted.
PushAfterDisconnect(slot, sock) ==
    IF slot = None THEN None
    ELSE LET room == slot[1]
             idx == FindIndex(room.players, sock)
         IN  IF idx = 0 THEN slot
             ELSE LET left == RemoveAt(room.players, idx) IN
                  IF Len(left) = 0 THEN None
                  ELSE Some([room EXCEPT
                               !.players = left,
                               !.creatorId =
                                   IF room.creatorId = sock THEN left[1].id ELSE @])

PushJoin(sock, rid, playerName, targetScore) ==
    /\ sock \notin pgone
    /\ \E puzzle \in Puzzles, queue \in PuzzleSeqs(SOCK_QUEUE_SIZE) :
          LET room == IF prooms[rid] = None
                      THEN PushNewRoom(rid, sock, targetScore, puzzle, queue)
                      ELSE prooms[rid][1]
          IN  prooms' = [prooms EXCEPT ![rid] = Some(SockAddPlayer(room, sock, playerName))]
    /\ UNCHANGED <<pgone, pdeleted>>
    /\ PushFrame

PushReady(sock, rid) ==
    /\ sock \notin pgone
    /\ prooms[rid] # None
    /\ \E g \in Puzzles :
          prooms' = [prooms EXCEPT ![rid] = Some(PushReadyState(prooms[rid][1], sock, g))]
    /\ UNCHANGED <<pgone, pdeleted>>
    /\ PushFrame

PushSubmit(sock, rid, solution) ==
    /\ sock \notin pgone
    /\ prooms[rid] # None
    /\ prooms[rid][1].isActive
    /\ FindIndex(prooms[rid][1].players, sock) > 0
    /\ TotalScore(prooms[rid][1].players) < MaxSubmits
    /\ \E g \in Puzzles :
          prooms' = [prooms EXCEPT ![rid] =
              Some(PushSubmitState(prooms[rid][1],
                                   FindIndex(prooms[rid][1].players, sock), solution, g))]
    /\ UNCHANGED <<pgone, pdeleted>>
    /\ PushFrame

\* room_settings: only the creator, only a truthy targetScore.
PushSettings(sock, rid, targetScore) ==
    /\ sock \notin pgone
    /\ prooms[rid] # None
    /\ sock = prooms[rid][1].creatorId
    /\ Truthy(targetScore)
    /\ prooms' = [prooms EXCEPT ![rid] = Some([@[1] EXCEPT !.targetScore = targetScore])]
    /\ UNCHANGED <<pgone, pdeleted>>
    /\ PushFrame

PushDisconnect(sock) ==
    /\ sock \notin pgone
    /\ prooms' = [rid \in RoomIds |-> PushAfterDisconnect(prooms[rid], sock)]
    /\ pgone' = pgone \cup {sock}
    /\ pdeleted' = pdeleted \cup
          {PushPhase(prooms[rid][1]) :
              rid \in {r \in RoomIds : prooms[r] # None /\ prooms'[r] = None}}
    /\ PushFrame

PushInit ==
    /\ prooms = [rid \in RoomIds |-> None]
    /\ pgone = {}
    /\ pdeleted = {}

PushNext ==
    \/ \E sock \in PushSockets, rid \in RoomIds :
          \/ \E n \in Names, t \in TargetInputs : PushJoin(sock, rid, n, t)
          \/ PushReady(sock, rid)
          \/ PushSubmit(sock, rid, "6*4")
          \/ \E t \in TargetInputs : PushSettings(sock, rid, t)
    \/ \E sock \in PushSockets : PushDisconnect(sock)

\* ------------------------------------------------------------------------
\* Part 4: the polling client (src/app/utils/usePollingMultiplayer.ts)
\* ------------------------------------------------------------------------
(***************************************************************************)
(* The hook of one player ("me") in one room.  The client sees the room    *)
(* through snapshots: rev numbers the successive states of the room on the *)
(* server (a ghost value, the route sends no revision), time is            *)
(* lastSolution.time (0 when lastSolution is null), me says whether the    *)
(* player is listed in players, ready and solved are the player's ready    *)
(* flag and solution, gameOver is the gameOver of the room.  The game ends  *)
(* only in the specification SpecGameOver; in the others isPolling stays   *)
(* true.  Date.now() is the clock now; it stops at MaxTime.                *)
(*                                                                         *)
(* A poll that finds the player missing calls join() and is then replaced  *)
(* by the poll of the re-run effect (isJoining is a dependency of the      *)
(* effect).  The replaced poll goes on after its join() returned: it       *)
(* fetches the room once more and runs its recency check with the values   *)
(* it was created with.  It is the variable zombie.                        *)
(***************************************************************************)

\* const MAX_RETRIES = 3
MAX_RETRIES == 3

\* const MAX_INITIAL_ATTEMPTS = 5
MAX_INITIAL_ATTEMPTS == 5

\* const RETRY_DELAY = 1000
RETRY_DELAY == 1000

\* const POLL_INTERVAL = 500
POLL_INTERVAL == 500

\* const INITIAL_POLL_DELAY = 100
INITIAL_POLL_DELAY == 100

\* Bound: the room changes at most MaxRev times on the server.
MaxRev == 1

\* Bound: the clock stops at MaxTime.
MaxTime == 3

\* Bound: consecutiveErrors and retryCount stop counting at MaxErrors.
MaxErrors == 3

\* Bound: successfulPolls stops counting at MaxPolls.
MaxPolls == 1

UserActions == {"join", "ready", "submit"}

\* Date.now() of the step after a step that read the clock.
Tick(t) == IF t < MaxTime THEN t + 1 ELSE t

\* The room getLocalState creates when localRoomStore has none.
LocalFresh ==
    [rev |-> 0, time |-> 0, me |-> FALSE, ready |-> FALSE, solved |-> FALSE,
     gameOver |-> FALSE]

\* The body of a GET or POST response: the room as the route holds it.
ServerSnapshot(room) ==
    [rev |-> room.rev, time |-> room.time, me |-> room.me,
     ready |-> room.ready, solved |-> FALSE, gameOver |-> room.gameOver]

\* The route applies the player's action: join lists the player with
\* ready false, ready sets the flag, submit stamps lastSolution.
Commit(room, action, t) ==
    [rev |-> room.rev + 1,
     time |-> IF action = "submit" THEN t ELSE room.time,
     me |-> room.me \/ action = "join",
     ready |-> (room.ready /\ action # "join") \/ action = "ready",
     gameOver |-> room.gameOver]

\* The useState values after mount.
HookInit ==
    [state |-> None, lastStateUpdate |-> 0, useLocalMode |-> FALSE,
     successfulPolls |-> 0, consecutiveErrors |-> 0, retryCount |-> 0,
     isInitialPoll |-> TRUE, isJoining |-> FALSE, isPolling |-> TRUE]

\* The state values in the dependency list of the polling effect.
EffectDeps(hk) ==
    <<hk.useLocalMode, hk.isJoining, hk.lastStateUpdate, hk.consecutiveErrors,
      hk.isInitialPoll, hk.retryCount, hk.successfulPolls, hk.isPolling>>

\* No fetchState call is pending.
NoFetch == [phase |-> "none", retry |-> 0, kind |-> "none", snap |-> LocalFresh]

\* actionQueue[action] when no makeRequest call of the action is pending;
\* a pending call is Some(successfulPolls of the render that made it).
NoAction == None

\* actionQueue[action] after makeRequest handled a call in local mode: the
\* async function returned, and its finally ran, before the entry was
\* written, so the entry stays, with isPending = true and a settled promise.
Settled == Some(Undefined)

\* A POST of the action is in flight.
Pending(action) == actionQueue[action] # NoAction /\ actionQueue[action] # Settled

\* What the recency check of a poll reads of the render that created the
\* poll: whether a state was shown, and lastStateUpdate.
Closure(hk) == [shown |-> hk.state # None, lastStateUpdate |-> hk.lastStateUpdate]

\* No dropped poll waits.
NoZombie == [pc |-> "none", closure |-> Closure(HookInit), s |-> LocalFresh]

\* getLocalState: localRoomStore afterwards; the value returned is its room.
GetLocalState(stored) == IF stored = None THEN Some(LocalFresh) ELSE stored

\* handleLocalRequest on localRoomStore: localRoomStore afterwards.
LocalRequest(stored, action) ==
    LET currentState == IF stored = None THEN LocalFresh ELSE stored[1] IN
    Some(CASE action = "join" -> [currentState EXCEPT !.me = TRUE]
           [] action = "ready" ->
                 IF currentState.me THEN [currentState EXCEPT !.ready = TRUE]
                 ELSE currentState
           [] action = "submit" ->
                 IF currentState.me THEN [currentState EXCEPT !.solved = TRUE]
                 ELSE currentState)

\* handleLocalRequest on a room as a response of the route stored it in
\* localRoomStore: join pushes a player without a score unless the id is
\* listed, ready sets the flag of the player, submit records the solution.
HandleLocalRequest(state, r) ==
    LET idx == FindIndex(state.players, r.playerId) IN
    IF r.action = "join"
    THEN IF idx # 0 THEN state
         ELSE [state EXCEPT !.players =
                  Append(@, [id |-> r.playerId,
                             name |-> IF r.playerName = Absent THEN "Anonymous"
                                      ELSE r.playerName,
                             ready |-> FALSE,
                             score |-> Undefined])]
    ELSE IF idx = 0 THEN state
    ELSE IF r.action = "ready"
    THEN [state EXCEPT !.players[idx].ready = TRUE]
    ELSE IF r.action = "submit"
    THEN [state EXCEPT !.players[idx] =
             [id |-> @.id, name |-> @.name, ready |-> @.ready,
              score |-> @.score, solution |-> r.solution]]
    ELSE state

\* handleLocalRequest: setState(currentState), setLastStateUpdate(Date.now()).
LocalSets(hk, stored, t) ==
    [hk EXCEPT !.state = stored, !.lastStateUpdate = t]

\* poll: s.lastSolution?.time || Date.now()
StateTimestamp(s, t) == IF s.time # 0 THEN s.time ELSE t

\* poll: stateTimestamp > lastStateUpdate.  Date.now() is later than every
\* timestamp taken before; this also holds of the clock stopped at MaxTime.
IsNewer(s, t, lastStateUpdate) ==
    IF s.time # 0 THEN s.time > lastStateUpdate
    ELSE t > lastStateUpdate \/ t = MaxTime

\* poll: the recency check and the updates behind it, then
\* "if (s.gameOver) setIsPolling(false)".  closure holds the values the
\* poll was created with, hk the values the updates act on.
PollApply(closure, hk, s, t) ==
    LET shown == IF ~closure.shown \/ IsNewer(s, t, closure.lastStateUpdate)
                 THEN [hk EXCEPT !.state = Some(s),
                                 !.lastStateUpdate = StateTimestamp(s, t),
                                 !.consecutiveErrors = 0,
                                 !.retryCount = 0,
                                 !.isInitialPoll = FALSE,
                                 !.successfulPolls = IF @ < MaxPolls THEN @ + 1
                                                     ELSE @]
                 ELSE hk
    IN  IF s.gameOver THEN [shown EXCEPT !.isPolling = FALSE] ELSE shown

\* poll, catch branch: count the error; local mode at the threshold if no
\* poll ever succeeded.
PollError(closure, hk) ==
    [hk EXCEPT !.consecutiveErrors = IF @ < MaxErrors THEN @ + 1 ELSE @,
               !.retryCount = IF @ < MaxErrors THEN @ + 1 ELSE @,
               !.useLocalMode =
                   @ \/ (closure.consecutiveErrors >= MAX_RETRIES
                            /\ closure.successfulPolls = 0)]

\* k to the power n.
RECURSIVE Pow(_, _)
Pow(k, n) == IF n = 0 THEN 1 ELSE k * Pow(k, n - 1)

\* Math.min(a, b)
Min(a, b) == IF a < b THEN a ELSE b

\* poll: the delay of "setTimeout(poll, delay)", computed from the values
\* of the render that created the poll.  RETRY_DELAY * Math.pow(1.5, n) is
\* RETRY_DELAY * 3^n / 2^n; the division is exact up to n = 3 and the
\* quotient is above 5000 from n = 4 on.
Delay(closure) ==
    IF closure.useLocalMode THEN POLL_INTERVAL
    ELSE IF closure.isInitialPoll THEN INITIAL_POLL_DELAY
    ELSE IF closure.consecutiveErrors > 0
    THEN Min((RETRY_DELAY * Pow(3, closure.consecutiveErrors))
                 \div Pow(2, closure.consecutiveErrors), 5000)
    ELSE POLL_INTERVAL

\* join, after "await fetchState": show the fresh room; retry once when the
\* player is missing, give up when the player is still missing.
JoinApply(hk, s, t, second) ==
    IF s.me THEN [hk EXCEPT !.state = Some(s), !.lastStateUpdate = t,
                            !.isJoining = FALSE]
    ELSE IF second THEN [hk EXCEPT !.state = None, !.isJoining = FALSE]
    ELSE [hk EXCEPT !.state = Some(s), !.lastStateUpdate = t]

\* join, catch and finally: setState(null), setIsJoining(false).
JoinFailed(hk) == [hk EXCEPT !.state = None, !.isJoining = FALSE]

\* React re-renders with the new values; when a dependency of the polling
\* effect changed, the running poll is dropped (isMounted = false), its
\* timer is cleared and the effect starts a poll of its own.
Rerender(hk, nextpc, att) ==
    /\ hook' = hk
    /\ pollpc' = IF EffectDeps(hk) # EffectDeps(hook) THEN "timer" ELSE nextpc
    /\ attempts' = IF EffectDeps(hk) # EffectDeps(hook) THEN 0 ELSE att

\* The route or its Redis goes down or comes back.
ServerToggle ==
    /\ up' = ~up
    /\ UNCHANGED <<zombie, srv, now, hook, localRoomStore, fetchQueue, actionQueue,
                   pollpc, joinpc, attempts>>
    /\ ClientFrame

\* Another player's request changes the room (a submit stamps lastSolution).
OthersCommit(submitted) ==
    /\ up
    /\ srv.rev < MaxRev
    /\ srv' = [srv EXCEPT !.rev = @ + 1,
                          !.time = IF submitted THEN now ELSE @]
    /\ now' = IF submitted THEN Tick(now) ELSE now
    /\ UNCHANGED <<zombie, up, hook, localRoomStore, fetchQueue, actionQueue,
                   pollpc, joinpc, attempts>>
    /\ ClientFrame

\* Another player's solution reaches the target score: the route stamps
\* lastSolution and sets gameOver.
GameEnds ==
    /\ up
    /\ ~srv.gameOver
    /\ srv' = [srv EXCEPT !.gameOver = TRUE, !.time = now]
    /\ now' = Tick(now)
    /\ UNCHANGED <<zombie, up, hook, localRoomStore, fetchQueue, actionQueue,
                   pollpc, joinpc, attempts>>
    /\ ClientFrame

\* The save of another request, which loaded the room before the join of
\* the player was saved, replaces the room (the route takes no lock): the
\* player is no longer listed.
PlayerLost ==
    /\ up
    /\ srv.me
    /\ ~srv.gameOver
    /\ srv' = [srv EXCEPT !.me = FALSE, !.ready = FALSE]
    /\ UNCHANGED <<zombie, up, now, hook, localRoomStore, fetchQueue, actionQueue,
                   pollpc, joinpc, attempts>>
    /\ ClientFrame

\* Who may call makeRequest: join() unless a join is running, markReady
\* and submitSolution only when the shown state lists the player.  A call
\* while the same action is pending returns the pending promise.
MayRequest(action) ==
    /\ actionQueue[action] = NoAction
    /\ IF action = "join" THEN ~hook.isJoining /\ joinpc = "idle"
       ELSE hook.state # None /\ hook.state[1].me

\* join: setIsJoining(true) before the call of makeRequest.
Calling(hk, action) ==
    IF action = "join" THEN [hk EXCEPT !.isJoining = TRUE] ELSE hk

\* makeRequest in local mode after a successful poll: handleLocalRequest.
RequestLocal(action) ==
    /\ MayRequest(action)
    /\ hook.useLocalMode /\ hook.successfulPolls > 0
    /\ localRoomStore' = LocalRequest(localRoomStore, action)
    /\ Rerender(LocalSets(Calling(hook, action), localRoomStore', now),
                pollpc, attempts)
    /\ now' = Tick(now)
    /\ joinpc' = IF action = "join" THEN "fetch" ELSE joinpc
    /\ actionQueue' = [actionQueue EXCEPT ![action] = Settled]
    /\ UNCHANGED <<zombie, up, srv, fetchQueue>>
    /\ ClientFrame

\* join() while actionQueue holds the entry of a call handled in local
\* mode: makeRequest returns the settled promise of that entry, nothing is
\* sent or applied, and join() goes on to its fetchState call.
JoinShared ==
    /\ actionQueue["join"] = Settled
    /\ ~hook.isJoining /\ joinpc = "idle"
    /\ Rerender(Calling(hook, "join"), pollpc, attempts)
    /\ joinpc' = "fetch"
    /\ UNCHANGED <<zombie, up, srv, now, localRoomStore, fetchQueue, actionQueue>>
    /\ ClientFrame

\* makeRequest otherwise: the POST is sent.
RequestSend(action) ==
    /\ MayRequest(action)
    /\ ~(hook.useLocalMode /\ hook.successfulPolls > 0)
    /\ actionQueue' = [actionQueue EXCEPT ![action] = Some(hook.successfulPolls)]
    /\ Rerender(Calling(hook, action), pollpc, attempts)
    /\ joinpc' = IF action = "join" THEN "posting" ELSE joinpc
    /\ UNCHANGED <<zombie, up, srv, now, localRoomStore, fetchQueue>>
    /\ ClientFrame

\* The auto-join effect: join() whenever no state is shown.
AutoJoin ==
    /\ hook.state = None
    /\ RequestLocal("join") \/ RequestSend("join") \/ JoinShared

\* The route refuses a new player and a solution when the game is over.
RouteAccepts(room, action) ==
    CASE action = "join" -> room.me \/ ~room.gameOver
      [] action = "submit" -> ~room.gameOver
      [] OTHER -> TRUE

\* The route commits the action and makeRequest applies the response.
PostOk(action) ==
    /\ Pending(action)
    /\ up
    /\ srv.rev < MaxRev
    /\ action = "join" \/ srv.me
    /\ RouteAccepts(srv, action)
    /\ srv' = Commit(srv, action, now)
    /\ localRoomStore' = Some(ServerSnapshot(srv'))
    /\ Rerender([hook EXCEPT
                    !.successfulPolls = IF @ < MaxPolls THEN @ + 1 ELSE @,
                    !.state = Some(ServerSnapshot(srv')),
                    !.lastStateUpdate = now],
                pollpc, attempts)
    /\ now' = Tick(now)
    /\ actionQueue' = [actionQueue EXCEPT ![action] = NoAction]
    /\ joinpc' = IF action = "join" THEN "fetch" ELSE joinpc
    /\ UNCHANGED <<zombie, up, fetchQueue>>
    /\ ClientFrame

\* fetchState, first lines: a pending call of the room is shared, else a
\* GET is sent.
FetchState(retryCount) ==
    IF fetchQueue.phase # "none" THEN fetchQueue
    ELSE [phase |-> "sent", retry |-> retryCount, kind |-> "none",
          snap |-> LocalFresh]

\* The dropped poll after "await join()": "s = await fetchState(roomId)".
AfterJoin(z) == IF z.pc = "joining" THEN [z EXCEPT !.pc = "awaiting"] ELSE z

\* makeRequest: the failed request is handled by handleLocalRequest when a
\* poll had succeeded before the call.
HandledLocally(polls) == polls > 0

\* makeRequest throws unless it answered a 503 locally.
Thrown(polls, kind) == ~(kind = "503" /\ polls > 0)

\* The POST fails: "rejected" is a 400 or 404 of the reachable route, "503"
\* and "neterr" (network error or timeout) come from the unreachable one.
PostFails(action, kind) ==
    /\ Pending(action)
    /\ IF kind = "rejected" THEN up ELSE ~up
    /\ LET polls == actionQueue[action][1]
           stored == IF HandledLocally(polls)
                     THEN LocalRequest(localRoomStore, action)
                     ELSE localRoomStore
           handled == IF HandledLocally(polls)
                      THEN LocalSets([hook EXCEPT !.useLocalMode = TRUE],
                                     stored, now)
                      ELSE hook
           failed == Thrown(polls, kind) /\ action = "join"
       IN  /\ localRoomStore' = stored
           /\ Rerender(IF failed THEN JoinFailed(handled) ELSE handled,
                       pollpc, attempts)
           /\ now' = IF HandledLocally(polls) THEN Tick(now) ELSE now
           /\ joinpc' = IF action # "join" THEN joinpc
                        ELSE IF failed THEN "idle" ELSE "fetch"
           /\ zombie' = IF failed THEN AfterJoin(zombie) ELSE zombie
           /\ fetchQueue' = IF failed /\ zombie.pc = "joining"
                            THEN FetchState(0) ELSE fetchQueue
    /\ actionQueue' = [actionQueue EXCEPT ![action] = NoAction]
    /\ UNCHANGED <<up, srv>>
    /\ ClientFrame

\* join: "await fetchState(roomId)", the first time or the retry.
JoinFetch ==
    /\ joinpc \in {"fetch", "retry"}
    /\ fetchQueue' = FetchState(0)
    /\ joinpc' = IF joinpc = "fetch" THEN "awaiting" ELSE "awaiting2"
    /\ UNCHANGED <<zombie, up, srv, now, hook, localRoomStore, actionQueue, pollpc,
                   attempts>>
    /\ ClientFrame

\* poll in local mode: the room comes from getLocalState.
PollLocal ==
    /\ pollpc = "timer"
    /\ hook.isPolling
    /\ hook.useLocalMode
    /\ localRoomStore' = GetLocalState(localRoomStore)
    /\ Rerender(PollApply(Closure(hook), hook, localRoomStore'[1], now), "timer",
                attempts)
    /\ now' = IF localRoomStore'[1].time = 0 THEN Tick(now) ELSE now
    /\ UNCHANGED <<zombie, up, srv, fetchQueue, actionQueue, joinpc>>
    /\ ClientFrame

\* poll otherwise: "await fetchState(roomId, retryCount)".
PollFetch ==
    /\ pollpc = "timer"
    /\ hook.isPolling
    /\ ~hook.useLocalMode
    /\ fetchQueue' = FetchState(hook.retryCount)
    /\ pollpc' = "awaiting"
    /\ UNCHANGED <<zombie, up, srv, now, hook, localRoomStore, actionQueue, joinpc,
                   attempts>>
    /\ ClientFrame

\* The GET is answered, or fetchWithTimeout gives up after REQUEST_TIMEOUT.
GetResponse(kind) ==
    /\ fetchQueue.phase = "sent"
    /\ IF kind = "ok" THEN up ELSE ~up
    /\ fetchQueue' = [fetchQueue EXCEPT
                         !.phase = "got",
                         !.kind = kind,
                         !.snap = IF kind = "ok" THEN ServerSnapshot(srv) ELSE @]
    /\ UNCHANGED <<zombie, up, srv, now, hook, localRoomStore, actionQueue, pollpc,
                   joinpc, attempts>>
    /\ ClientFrame

\* fetchState: a 504 or a timeout with retries left.
Retries(fq) == fq.kind \in {"504", "timeout"} /\ fq.retry < MAX_RETRIES

\* fetchState: localRoomStore after the call settled.
FetchStored(fq, stored) ==
    CASE fq.kind = "ok" -> Some(fq.snap)
      [] fq.kind = "503" -> GetLocalState(stored)
      [] OTHER -> stored

\* fetchState resolves: the response, the local room on a 503, the local
\* room after the retries when there is one.
Resolves(fq, stored) ==
    \/ fq.kind \in {"ok", "503"}
    \/ /\ ~Retries(fq)
       /\ fq.retry >= MAX_RETRIES
       /\ stored # None

\* The waiting poll goes on with the room s.
PollGoesOn(closure, hk, s, t, limit) ==
    PollApply(Closure(closure),
              IF limit THEN [hk EXCEPT !.useLocalMode = TRUE] ELSE hk,
              s, t)

\* The pending fetchState call resolves and its callers go on: the poll
\* with its recency check, join() with its unconditional setState, the
\* dropped poll with the recency check of its own closure.
FetchResolves(pollFirst) ==
    /\ fetchQueue.phase = "got"
    /\ Resolves(fetchQueue, localRoomStore)
    /\ LET stored == FetchStored(fetchQueue, localRoomStore)
           pollWaits == pollpc = "awaiting"
           joinWaits == joinpc \in {"awaiting", "awaiting2"}
           zombieWaits == zombie.pc = "awaiting"
           counted == pollWaits /\ hook.isInitialPoll
           limit == counted /\ attempts + 1 >= MAX_INITIAL_ATTEMPTS
           s == stored[1]
           rejoin == /\ pollWaits
                     /\ ~s.me
                     /\ ~hook.useLocalMode
                     /\ ~hook.isJoining
           joinDone == joinWaits /\ (s.me \/ joinpc = "awaiting2")
           viaZombie(hk) == IF zombieWaits
                            THEN PollApply(zombie.closure, hk, s, now)
                            ELSE hk
           viaPoll(hk) == IF ~pollWaits THEN hk
                          ELSE IF rejoin
                               THEN [hk EXCEPT !.isJoining = TRUE,
                                               !.useLocalMode = @ \/ limit]
                               ELSE PollGoesOn(hook, hk, s, now, limit)
           viaJoin(hk) == IF joinWaits
                          THEN JoinApply(hk, s, now, joinpc = "awaiting2")
                          ELSE hk
       IN  /\ localRoomStore' = stored
           /\ Rerender(IF pollFirst THEN viaJoin(viaPoll(viaZombie(hook)))
                       ELSE viaPoll(viaJoin(viaZombie(hook))),
                       IF pollWaits THEN "timer" ELSE pollpc,
                       IF counted /\ attempts < MAX_INITIAL_ATTEMPTS
                       THEN attempts + 1 ELSE attempts)
           /\ joinpc' = IF rejoin THEN "posting"
                        ELSE IF ~joinWaits THEN joinpc
                        ELSE IF joinDone THEN "idle" ELSE "retry"
           /\ actionQueue' = IF rejoin
                             THEN [actionQueue EXCEPT
                                      !["join"] = Some(hook.successfulPolls)]
                             ELSE actionQueue
           /\ zombie' = IF rejoin
                        THEN [pc |-> "joining", closure |-> Closure(hook), s |-> s]
                        ELSE IF joinDone THEN AfterJoin(zombie)
                        ELSE IF zombieWaits THEN NoZombie
                        ELSE zombie
           /\ fetchQueue' = IF joinDone /\ zombie.pc = "joining"
                            THEN [NoFetch EXCEPT !.phase = "sent"]
                            ELSE NoFetch
    /\ now' = Tick(now)
    /\ UNCHANGED <<up, srv>>
    /\ ClientFrame

\* The pending fetchState call rejects: the poll counts an error, join()
\* clears the shown state, the dropped poll goes on with the room it had.
FetchRejects ==
    /\ fetchQueue.phase = "got"
    /\ ~Retries(fetchQueue)
    /\ ~Resolves(fetchQueue, localRoomStore)
    /\ LET pollWaits == pollpc = "awaiting"
           joinWaits == joinpc \in {"awaiting", "awaiting2"}
           zombieWaits == zombie.pc = "awaiting"
           viaZombie == IF zombieWaits
                        THEN PollApply(zombie.closure, hook, zombie.s, now)
                        ELSE hook
           viaPoll == IF pollWaits THEN PollError(hook, viaZombie) ELSE viaZombie
           viaJoin == IF joinWaits THEN JoinFailed(viaPoll) ELSE viaPoll
       IN  /\ localRoomStore' = IF viaPoll.useLocalMode /\ ~hook.useLocalMode
                                THEN GetLocalState(localRoomStore)
                                ELSE localRoomStore
           /\ Rerender(viaJoin, IF pollWaits THEN "timer" ELSE pollpc, attempts)
           /\ joinpc' = IF joinWaits THEN "idle" ELSE joinpc
           /\ zombie' = IF joinWaits THEN AfterJoin(zombie)
                        ELSE IF zombieWaits THEN NoZombie
                        ELSE zombie
           /\ fetchQueue' = IF joinWaits /\ zombie.pc = "joining"
                            THEN [NoFetch EXCEPT !.phase = "sent"]
                            ELSE NoFetch
           /\ now' = IF zombieWaits THEN Tick(now) ELSE now
    /\ UNCHANGED <<up, srv, actionQueue>>
    /\ ClientFrame

\* fetchState retries: after RETRY_DELAY it calls fetchState(roomId,
\* retryCount + 1) while its own entry of fetchQueue is still pending, so
\* the call returns the pending promise, which is the promise of the caller.
\* The promise is resolved with itself behind one more promise and never
\* settles; finally deletes the entry.  No GET is sent.
FetchRetries ==
    /\ fetchQueue.phase = "got"
    /\ Retries(fetchQueue)
    /\ fetchQueue' = NoFetch
    /\ pollpc' = IF pollpc = "awaiting" THEN "hung" ELSE pollpc
    /\ joinpc' = IF joinpc \in {"awaiting", "awaiting2"} THEN "hung" ELSE joinpc
    /\ zombie' = IF zombie.pc = "awaiting" THEN NoZombie ELSE zombie
    /\ UNCHANGED <<up, srv, now, hook, localRoomStore, actionQueue, attempts>>
    /\ ClientFrame

ClientInit ==
    /\ up = TRUE
    /\ srv = [rev |-> 0, time |-> 0, me |-> FALSE, ready |-> FALSE,
              gameOver |-> FALSE]
    /\ now = 1
    /\ hook = HookInit
    /\ localRoomStore = None
    /\ fetchQueue = NoFetch
    /\ actionQueue = [action \in UserActions |-> NoAction]
    /\ pollpc = "timer"
    /\ joinpc = "idle"
    /\ attempts = 0
    /\ zombie = NoZombie

\* The page is loaded again during a game: the hook is mounted with the
\* playerId kept in localStorage, the room lists the player and has a
\* lastSolution; the queues and localRoomStore of the module are new.
ClientReloadInit ==
    /\ up = TRUE
    /\ srv = [rev |-> 0, time |-> 1, me |-> TRUE, ready |-> TRUE,
              gameOver |-> FALSE]
    /\ now = 2
    /\ hook = HookInit
    /\ localRoomStore = None
    /\ fetchQueue = NoFetch
    /\ actionQueue = [action \in UserActions |-> NoAction]
    /\ pollpc = "timer"
    /\ joinpc = "idle"
    /\ attempts = 0
    /\ zombie = NoZombie

\* The pending GET is answered or times out.
GetAnswered ==
    \E kind \in {"ok", "503", "504", "timeout", "neterr"} : GetResponse(kind)

\* The pending fetchState call goes on after the answer.
FetchSettles ==
    \/ \E pollFirst \in BOOLEAN : FetchResolves(pollFirst)
    \/ FetchRejects
    \/ FetchRetries

\* The pending POST is answered or fails.
PostAnswered ==
    \E action \in UserActions :
        \/ PostOk(action)
        \/ \E kind \in {"rejected", "503", "neterr"} : PostFails(action, kind)

ClientNext ==
    \/ ServerToggle
    \/ \E submitted \in BOOLEAN : OthersCommit(submitted)
    \/ \E action \in UserActions : RequestLocal(action)
    \/ \E action \in UserActions : RequestSend(action)
    \/ JoinShared
    \/ PollLocal
    \/ PollFetch
    \/ GetAnswered
    \/ FetchSettles
    \/ JoinFetch
    \/ PostAnswered

\* The client while the route is reachable and accepts every request: each
\* GET and each POST is answered 200.  join() goes on to its fetchState
\* call as soon as its POST is answered, before the next timer fires.
ReachableNext ==
    \/ \E submitted \in BOOLEAN : OthersCommit(submitted)
    \/ \E action \in UserActions : RequestLocal(action)
    \/ \E action \in UserActions : RequestSend(action)
    \/ JoinShared
    \/ joinpc # "fetch" /\ PollLocal
    \/ joinpc # "fetch" /\ PollFetch
    \/ GetResponse("ok")
    \/ \E pollFirst \in BOOLEAN : FetchResolves(pollFirst)
    \/ JoinFetch
    \/ \E action \in UserActions : PostOk(action)

\* ------------------------------------------------------------------------
\* Part 5: the socket route with join-room / player-ready / puzzle-solved
\* (src/app/api/socket/route.ts, first server, setupSocketHandlers).
\* ------------------------------------------------------------------------
(***************************************************************************)
(* The rooms live in a Map in memory and every event handler runs to       *)
(* completion.  The handlers of player-ready, puzzle-solved and disconnect *)
(* are registered inside the join-room handler, for the room id of that    *)
(* call: a socket that sent join-room twice has each of them twice, and    *)
(* one event runs them all in the order of registration.  players is a Map *)
(* keyed by socket.id, modelled as the sequence of its values in insertion *)
(* order.  The timer of puzzle-solved only replaces currentPuzzle by a new *)
(* puzzle; with the one representative puzzle it changes nothing and is no *)
(* step of the model.                                                      *)
(***************************************************************************)

\* socket.id of the clients; an id is never reused after its socket has
\* disconnected.
RoomSockets == {"alice", "bob", "carol"}

\* Bound: a socket sends join-room at most MaxJoins times.
MaxJoins == 2

\* playerName of join-room: a name or nothing.
RoomNames == {"x", Absent}

\* `Player ${room.players.size + 1}`
PlayerNumber(n) == <<"Player 1", "Player 2", "Player 3", "Player 4">>[n]

\* join-room: typeof targetScore === 'number' && 1 <= targetScore <= 10,
\* else 5.
RoomTargetScore(targetScore) ==
    IF targetScore # Undefined /\ targetScore >= 1 /\ targetScore <= 10
    THEN targetScore ELSE 5

\* join-room: the room created for an unknown room id (winner and startTime
\* are not set).
NewRoom(rid, sock, targetScore, puzzle) ==
    [id            |-> rid,
     players       |-> <<>>,
     currentPuzzle |-> puzzle,
     isActive      |-> FALSE,
     startTime     |-> Undefined,
     targetScore   |-> RoomTargetScore(targetScore),
     winner        |-> Absent,
     creatorId     |-> sock]

\* players.set(socket.id, player): the value of a present key is replaced
\* where it is, a new key comes last.
SetPlayer(players, player) ==
    LET idx == FindIndex(players, player.id) IN
    IF idx > 0 THEN [players EXCEPT ![idx] = player] ELSE Append(players, player)

\* join-room: the player is (re)entered with score 0 and ready false.
JoinedRoom(room, sock, playerName) ==
    [room EXCEPT !.players =
        SetPlayer(@, [id    |-> sock,
                      name  |-> IF playerName = Absent
                                THEN PlayerNumber(Len(room.players) + 1)
                                ELSE playerName,
                      score |-> 0,
                      ready |-> FALSE])]

\* One player-ready handler on its room.
ReadyHandler(room, sock, puzzle, t) ==
    LET idx == FindIndex(room.players, sock) IN
    IF idx = 0 THEN room
    ELSE LET r1 == [room EXCEPT !.players[idx].ready = TRUE] IN
         IF (\A i \in 1..Len(r1.players) : r1.players[i].ready)
               /\ Len(r1.players) >= 2
         THEN [r1 EXCEPT !.isActive = TRUE,
                         !.currentPuzzle = puzzle,
                         !.startTime = t]
         ELSE r1

\* One puzzle-solved handler on its room.
SolvedHandler(room, sock) ==
    LET idx == FindIndex(room.players, sock) IN
    IF ~room.isActive \/ idx = 0 THEN room
    ELSE LET r1 == [room EXCEPT !.players[idx].score = @ + 1] IN
         IF r1.players[idx].score >= r1.targetScore
         THEN [r1 EXCEPT !.winner = sock, !.isActive = FALSE]
         ELSE r1

\* One disconnect handler on the slot of its room: players.delete, and
\* rooms.delete when nobody is left.
DisconnectHandler(slot, sock) ==
    LET room == slot[1]
        idx == FindIndex(room.players, sock)
        left == IF idx = 0 THEN room.players ELSE RemoveAt(room.players, idx)
    IN  IF Len(left) = 0 THEN None ELSE Some([room EXCEPT !.players = left])

\* One handler of the event, registered for room rid ("if (!room) return").
Handle(rs, sock, rid, event) ==
    IF rs[rid] = None THEN rs
    ELSE [rs EXCEPT ![rid] =
            CASE event = "player-ready" ->
                     Some(ReadyHandler(rs[rid][1], sock, <<1, 2, 3, 4>>, 1))
              [] event = "puzzle-solved" -> Some(SolvedHandler(rs[rid][1], sock))
              [] event = "disconnect" -> DisconnectHandler(rs[rid], sock)]

\* The event runs every handler the socket registered for it, in order.
RECURSIVE Emit(_, _, _, _)
Emit(rs, sock, ls, event) ==
    IF ls = <<>> THEN rs
    ELSE Emit(Handle(rs, sock, Head(ls), event), sock, Tail(ls), event)

JoinRoom(sock, rid, playerName, targetScore) ==
    /\ sock \notin closed
    /\ Len(listeners[sock]) < MaxJoins
    /\ \E puzzle \in Puzzles :
          LET room == IF rooms[rid] = None
                      THEN NewRoom(rid, sock, targetScore, puzzle)
                      ELSE rooms[rid][1]
          IN  rooms' = [rooms EXCEPT ![rid] = Some(JoinedRoom(room, sock, playerName))]
    /\ listeners' = [listeners EXCEPT ![sock] = Append(@, rid)]
    /\ UNCHANGED closed
    /\ RoomFrame

PlayerReady(sock) ==
    /\ sock \notin closed
    /\ listeners[sock] # <<>>
    /\ rooms' = Emit(rooms, sock, listeners[sock], "player-ready")
    /\ UNCHANGED <<listeners, closed>>
    /\ RoomFrame

\* The clients stop sending solutions once MaxSubmits are counted.
PuzzleSolved(sock) ==
    /\ sock \notin closed
    /\ listeners[sock] # <<>>
    /\ \A rid \in RoomIds :
          rooms[rid] # None => TotalScore(rooms[rid][1].players) < MaxSubmits
    /\ rooms' = Emit(rooms, sock, listeners[sock], "puzzle-solved")
    /\ UNCHANGED <<listeners, closed>>
    /\ RoomFrame

Disconnect(sock) ==
    /\ sock \notin closed
    /\ rooms' = Emit(rooms, sock, listeners[sock], "disconnect")
    /\ closed' = closed \cup {sock}
    /\ UNCHANGED listeners
    /\ RoomFrame

RoomInit ==
    /\ rooms = [rid \in RoomIds |-> None]
    /\ listeners = [sock \in RoomSockets |-> <<>>]
    /\ closed = {}

RoomNext ==
    \/ \E sock \in RoomSockets, rid \in RoomIds, n \in RoomNames,
          t \in TargetInputs : JoinRoom(sock, rid, n, t)
    \/ \E sock \in RoomSockets : PlayerReady(sock)
    \/ \E sock \in RoomSockets : PuzzleSolved(sock)
    \/ \E sock \in RoomSockets : Disconnect(sock)

\* ------------------------------------------------------------------------
\* Specifications
\* ------------------------------------------------------------------------

Init == RestInit /\ SockInit /\ PushInit /\ ClientInit /\ RoomInit

\* The REST route: two handlers, Redis reachable, well-formed requests.
Next == RestNext

Spec == Init /\ [][Next]_vars

\* The REST route with requests for two rooms.
SpecTwoRooms == Init /\ [][TwoRoomsNext]_vars

\* The REST route, one handler, malformed requests and Redis failures.
SpecFaults == Init /\ [][FaultsNext]_vars

\* The join_room / player_ready / submit_solution socket route.
SpecSocket == Init /\ [][SockNext]_vars

\* The push server with room settings and disconnects.
SpecPush == Init /\ [][PushNext]_vars

\* The join-room / player-ready / puzzle-solved socket route.
SpecRooms == Init /\ [][RoomNext]_vars

\* The polling client of one player against the room route.
SpecClient == Init /\ [][ClientNext]_vars

\* The polling client mounted by a reload during a game, every request
\* answered 200.
ReloadInit == RestInit /\ SockInit /\ PushInit /\ RoomInit /\ ClientReloadInit

SpecClientReachable == ReloadInit /\ [][ReachableNext]_vars

\* A room whose game ends while the client is on the page: the client
\* mounts the hook before the game has started.
GameOverInit ==
    /\ up = TRUE
    /\ srv = [rev |-> 0, time |-> 0, me |-> FALSE, ready |-> FALSE,
              gameOver |-> FALSE]
    /\ now = 1
    /\ hook = HookInit
    /\ localRoomStore = None
    /\ fetchQueue = NoFetch
    /\ actionQueue = [action \in UserActions |-> NoAction]
    /\ pollpc = "timer"
    /\ joinpc = "idle"
    /\ attempts = 0
    /\ zombie = NoZombie

FinishedInit == RestInit /\ SockInit /\ PushInit /\ RoomInit /\ GameOverInit

\* The auto-join effect runs in the commit that starts a poll: a poll
\* outlives the commit only if a state is shown or join() is running, and
\* join() goes on to its fetchState call before the next timer fires.
PollStays == joinpc # "fetch" /\ (hook.state # None \/ hook.isJoining)

\* The client of a room whose game ends: the route is reachable, answers
\* every GET with 200 and accepts or refuses (400) a POST.
GameOverNext ==
    \/ GameEnds
    \/ PlayerLost
    \/ \E action \in UserActions : RequestLocal(action)
    \/ \E action \in UserActions : RequestSend(action)
    \/ JoinShared
    \/ PollStays /\ PollLocal
    \/ PollStays /\ PollFetch
    \/ GetResponse("ok")
    \/ \E pollFirst \in BOOLEAN : FetchResolves(pollFirst)
    \/ JoinFetch
    \/ \E action \in UserActions : PostOk(action)
    \/ \E action \in UserActions : PostFails(action, "rejected")

SpecGameOver == FinishedInit /\ [][GameOverNext]_vars

\* The client's timers fire, requests are answered or time out, and the
\* continuations of settled promises run.  The user and the other players
\* act when they like.
SpecClientFair ==
    /\ SpecClient
    /\ WF_vars(PollLocal)
    /\ WF_vars(PollFetch)
    /\ WF_vars(GetAnswered)
    /\ WF_vars(FetchSettles)
    /\ WF_vars(JoinFetch)
    /\ WF_vars(PostAnswered)
    /\ WF_vars(AutoJoin)

\* ------------------------------------------------------------------------
\* Properties
\* ------------------------------------------------------------------------

\* Phases of a room.
IsLobby(state) == ~state.isActive /\ ~state.gameOver

IsActivePhase(state) == state.isActive /\ ~state.gameOver

IsComplete(state) == state.gameOver

\* Score of playerId in a state; -1 when the player is not in it.
ScoreIn(state, playerId) ==
    LET i == FindIndex(state.players, playerId) IN
    IF i = 0 THEN 0 - 1 ELSE state.players[i].score

\* In this step handler h applies `action` to the state it loaded and the
\* save succeeds (join goes on to its second save, ready and submit answer 200).
Accepts(h, action) ==
    /\ pc[h] = "loaded"
    /\ req[h].action = action
    /\ IF action = "join"
       THEN pc'[h] = "saved"
       ELSE pc'[h] = "idle" /\ last' = [action |-> action, status |-> 200]

\* The players of `after` are those of `before`, with the same scores except
\* that the score of playerId is higher by one.
OnlyScoreOfRaised(before, after, playerId) ==
    /\ Len(after.players) = Len(before.players)
    /\ \A i \in 1..Len(before.players) :
          /\ after.players[i].id = before.players[i].id
          /\ after.players[i].score =
                before.players[i].score + (IF before.players[i].id = playerId THEN 1 ELSE 0)

\* C1: when a handler commits an accepted submit, the stored score of every
\* other player of the room is the one stored just before (the state the
\* other handler left): an increment committed in between by a different
\* player is not lost.
C1_NoLostUpdate ==
    [][\A h \in Handlers :
          Accepts(h, "submit") =>
              \A q \in PlayerIds \ {req[h].playerId} :
                  ScoreIn(store[req[h].roomId][1], q) >= 0 =>
                      ScoreIn(store'[req[h].roomId][1], q)
                          = ScoreIn(store[req[h].roomId][1], q)]_vars

\* C2: a handler that loaded a Complete room (gameOver) stores, whatever its
\* action, the scores and the winner it loaded; and in a run without
\* overlapping requests no step changes a score or the winner of a stored
\* Complete room.
C2_CompleteIsFrozen ==
    [][/\ \A h \in Handlers :
            (pc[h] \in {"loaded", "saved"} /\ st[h][1].gameOver /\ pc'[h] # pc[h]) =>
                LET s == st[h][1]
                    a == store'[req[h].roomId][1]
                IN  \/ store' = store
                    \/ /\ a.gameOver
                       /\ a.winner = s.winner
                       /\ Len(a.players) = Len(s.players)
                       /\ \A i \in 1..Len(s.players) :
                             /\ a.players[i].id = s.players[i].id
                             /\ a.players[i].score = s.players[i].score
       /\ \A rid \in RoomIds :
            (overlaps' = 0 /\ store[rid] # None /\ store[rid][1].gameOver) =>
                /\ store'[rid] # None
                /\ store'[rid][1].gameOver
                /\ store'[rid][1].winner = store[rid][1].winner
                /\ \A p \in PlayerIds :
                      ScoreIn(store'[rid][1], p) = ScoreIn(store[rid][1], p)]_vars

\* C2 witness: in a run without overlapping requests, a room that is Complete
\* was started again by a ready and a submit has then been rejected.
C2_Witness ==
    /\ overlaps = 0
    /\ last = [action |-> "submit", status |-> 400]
    /\ \E rid \in RoomIds :
          /\ store[rid] # None
          /\ store[rid][1].gameOver
          /\ store[rid][1].isActive
          /\ store[rid][1].winner \in PlayerIds

\* C3: in the sequence of stored room states gameOver never goes from true
\* to false and a room that has left Lobby never returns to Lobby.
C3_PhaseOnlyAdvances ==
    [][\A rid \in RoomIds :
          store[rid] # None =>
              /\ store'[rid] # None
              /\ store[rid][1].gameOver => store'[rid][1].gameOver
              /\ ~IsLobby(store[rid][1]) => ~IsLobby(store'[rid][1])]_vars

\* C4: an accepted ready starts the game (sets isActive or replaces
\* currentPuzzle) if and only if, after it, the room has at least 2 players,
\* all ready, and the room has never been started before (it is in Lobby with
\* no current puzzle).
C4_StartsExactlyOnce ==
    [][\A h \in Handlers :
          Accepts(h, "ready") =>
              LET s == st[h][1]
                  a == store'[req[h].roomId][1]
              IN  ((a.isActive /\ ~s.isActive) \/ a.currentPuzzle # s.currentPuzzle)
                  <=> (CanStart(a) /\ IsLobby(s) /\ s.currentPuzzle = <<>>)]_vars

\* C5: in a room that is not Active (Lobby or Complete) no step, hence no
\* submit, changes a score or lastSolution (socket route).
C5_SubmitOnlyWhileActive ==
    [][\A rid \in RoomIds :
          (srooms[rid] # None /\ ~IsActivePhase(srooms[rid][1])) =>
              /\ srooms'[rid] # None
              /\ srooms'[rid][1].lastSolution = srooms[rid][1].lastSolution
              /\ \A p \in Sockets :
                    ScoreIn(srooms[rid][1], p) >= 0 =>
                        ScoreIn(srooms'[rid][1], p) = ScoreIn(srooms[rid][1], p)]_vars

\* C6: an accepted submit stores the players the handler loaded, with the
\* submitter's score raised by exactly 1 and every other score as loaded, and
\* it is accepted only for an Active room.
C6_SubmitAddsOne ==
    [][\A h \in Handlers :
          Accepts(h, "submit") =>
              /\ IsActivePhase(st[h][1])
              /\ OnlyScoreOfRaised(st[h][1], store'[req[h].roomId][1], req[h].playerId)
              /\ ScoreIn(store'[req[h].roomId][1], req[h].playerId)
                    = ScoreIn(st[h][1], req[h].playerId) + 1]_vars

\* C6 witness: in a run without overlapping requests a submit has just been
\* accepted and both players have score 1.
C6_Witness ==
    /\ overlaps = 0
    /\ last = [action |-> "submit", status |-> 200]
    /\ \E rid \in RoomIds :
          /\ store[rid] # None
          /\ ScoreIn(store[rid][1], "alice") = 1
          /\ ScoreIn(store[rid][1], "bob") = 1

\* C7: the stored score of a player is never negative and never lower than in
\* the room stored before (for a player in both stored rooms).
C7_ScoresNeverDecrease ==
    [][\A rid \in RoomIds, p \in PlayerIds :
          (/\ store[rid] # None
           /\ store'[rid] # None
           /\ FindIndex(store[rid][1].players, p) > 0
           /\ FindIndex(store'[rid][1].players, p) > 0) =>
              /\ ScoreIn(store[rid][1], p) >= 0
              /\ ScoreIn(store'[rid][1], p) >= ScoreIn(store[rid][1], p)]_vars

\* Scenario B through the branches of POST: targetScore 2, alice and bob
\* join and get ready, then submit(alice), submit(bob), submit(alice).
ScenarioB ==
    LET p  == <<1, 2, 3, 4>>
        s0 == InitialState("r1", 2, [i \in 1..QUEUE_SIZE |-> p])
        j1 == JoinResult(s0, "alice", "x")
        j2 == JoinResult(j1.state, "bob", "y")
        r1 == ReadyResult(j2.state, "alice", <<>>)
        r2 == ReadyResult(r1.state, "bob", <<>>)
        u1 == SubmitResult(r2.state, "alice", "6*4", p, p)
        u2 == SubmitResult(u1.state, "bob", "6*4", p, p)
        u3 == SubmitResult(u2.state, "alice", "6*4", p, p)
    IN  /\ IsActivePhase(r2.state) /\ IsActivePhase(u1.state) /\ IsActivePhase(u2.state)
        /\ u1.status = 200 /\ u2.status = 200 /\ u3.status = 200
        /\ IsComplete(u3.state)
        /\ ScoreIn(u3.state, "alice") = 2
        /\ ScoreIn(u3.state, "bob") = 1
        /\ u3.state.winner = "alice"

\* C8: an accepted submit stores a Complete room exactly when the score of
\* the submitter, after the increment, is >= targetScore, and then the winner
\* is the submitter; otherwise the room stays Active, the winner is as loaded
\* and currentPuzzle is the head of the loaded queue.  Scenario B ends Complete
\* with alice.score = 2 and winner alice.
C8_CompleteExactlyAtTarget ==
    [][/\ ScenarioB
       /\ \A h \in Handlers :
            Accepts(h, "submit") =>
                LET s == st[h][1]
                    a == store'[req[h].roomId][1]
                    won == ScoreIn(s, req[h].playerId) + 1 >= s.targetScore
                IN  /\ a.gameOver <=> won
                    /\ won => (a.winner = req[h].playerId /\ ~a.isActive)
                    /\ ~won => /\ IsActivePhase(a)
                               /\ a.winner = s.winner
                               /\ Len(s.puzzleQueue) > 0 =>
                                     a.currentPuzzle = Head(s.puzzleQueue)]_vars

\* C8 witness: Scenario B has run without overlapping requests: targetScore
\* 2, the last submit was accepted, alice has 2, bob 1, alice is the winner.
C8_Witness ==
    /\ overlaps = 0
    /\ last = [action |-> "submit", status |-> 200]
    /\ \E rid \in RoomIds :
          /\ store[rid] # None
          /\ store[rid][1].targetScore = 2
          /\ ScoreIn(store[rid][1], "alice") = 2
          /\ ScoreIn(store[rid][1], "bob") = 1
          /\ store[rid][1].gameOver
          /\ store[rid][1].winner = "alice"

\* C9: in every room with gameOver, winner is the id of a player of the room
\* whose score is >= targetScore (push server).
C9_WinnerReachedTarget ==
    \A rid \in RoomIds :
        (prooms[rid] # None /\ prooms[rid][1].gameOver) =>
            \E i \in 1..Len(prooms[rid][1].players) :
                /\ prooms[rid][1].players[i].id = prooms[rid][1].winner
                /\ prooms[rid][1].players[i].score >= prooms[rid][1].targetScore

\* C10: a join by a player already in the loaded room either stores nothing
\* (it is rejected, or the save fails), or stores the loaded room with the
\* same number of players, that player renamed with ready = false and the
\* score it had, every other player and the phase and winner as loaded; the
\* second save of the join stores the same players again.
C10_RejoinKeepsMembership ==
    [][\A h \in Handlers :
          /\ (pc[h] = "loaded" /\ req[h].action = "join" /\ pc'[h] # "loaded"
               /\ FindIndex(st[h][1].players, req[h].playerId) > 0) =>
                LET s == st[h][1]
                    idx == FindIndex(s.players, req[h].playerId)
                    a == store'[req[h].roomId][1]
                IN  \/ pc'[h] = "idle" /\ store' = store /\ last'.status # 200
                    \/ /\ Len(a.players) = Len(s.players)
                       /\ a.players[idx] =
                             [id |-> req[h].playerId, name |-> req[h].playerName,
                              ready |-> FALSE, score |-> s.players[idx].score]
                       /\ \A i \in 1..Len(s.players) :
                             i # idx => a.players[i] = s.players[i]
                       /\ a.isActive = s.isActive
                       /\ a.gameOver = s.gameOver
                       /\ a.winner = s.winner
                       /\ pc'[h] = "saved" => st'[h][1].players = a.players
          /\ (pc[h] = "saved" /\ pc'[h] = "idle" /\ last'.status = 200) =>
                store'[req[h].roomId][1].players = st[h][1].players]_vars

\* C10 witness: in a run without overlapping requests a player has rejoined
\* an Active room: the join was answered 200, there are still two players,
\* one of them is not ready and a score is kept.
C10_Witness ==
    /\ overlaps = 0
    /\ last = [action |-> "join", status |-> 200]
    /\ \E rid \in RoomIds :
          /\ store[rid] # None
          /\ IsActivePhase(store[rid][1])
          /\ Len(store[rid][1].players) = 2
          /\ \E i \in 1..2 :
                /\ ~store[rid][1].players[i].ready
                /\ store[rid][1].players[i].score = 1

\* The ids of a player list are pairwise distinct.
UniqueIds(players) ==
    \A i, j \in 1..Len(players) : i # j => players[i].id # players[j].id

\* C11: in every stored room, and in the private copy of every handler, no
\* two players have the same id, whatever the interleaving of the handlers.
C11_PlayerIdsUnique ==
    /\ \A rid \in RoomIds : store[rid] # None => UniqueIds(store[rid][1].players)
    /\ \A h \in Handlers : st[h] # None => UniqueIds(st[h][1].players)

\* C11 witness: two joins of the same new player overlap: one handler has
\* stored the room with that player while the other, which loaded the room
\* without the player, is about to add the player to its own copy.
C11_Witness ==
    \E rid \in RoomIds, p \in PlayerIds :
        /\ pc["h1"] = "saved" /\ req["h1"].action = "join" /\ req["h1"].playerId = p
        /\ pc["h2"] = "loaded" /\ req["h2"].action = "join" /\ req["h2"].playerId = p
        /\ FindIndex(st["h2"][1].players, p) = 0
        /\ store[rid] # None
        /\ FindIndex(store[rid][1].players, p) > 0

\* The names of a player list are pairwise distinct.
UniqueNames(players) ==
    \A i, j \in 1..Len(players) : i # j => players[i].name # players[j].name

\* C12: a join that loaded a Lobby room in which a different player has the
\* requested name, sent by a player not in the room, is answered 400 and
\* stores nothing; and no two players of a stored Lobby room share a name.
C12_NameConflictRejected ==
    /\ [](\A rid \in RoomIds :
            (store[rid] # None /\ IsLobby(store[rid][1])) =>
                UniqueNames(store[rid][1].players))
    /\ [][\A h \in Handlers :
            (/\ pc[h] = "loaded"
             /\ pc'[h] # "loaded"
             /\ req[h].action = "join"
             /\ IsLobby(st[h][1])
             /\ FindIndex(st[h][1].players, req[h].playerId) = 0
             /\ \E i \in 1..Len(st[h][1].players) :
                   st[h][1].players[i].name = req[h].playerName) =>
                /\ pc'[h] = "idle"
                /\ last' = [action |-> "join", status |-> 400]
                /\ store' = store]_vars

\* C12 witness (Scenario C): in a run without overlapping requests a Lobby
\* room has one player and a join has just been answered 400.
C12_Witness ==
    /\ overlaps = 0
    /\ last = [action |-> "join", status |-> 400]
    /\ \E rid \in RoomIds :
          /\ store[rid] # None
          /\ IsLobby(store[rid][1])
          /\ Len(store[rid][1].players) = 1

\* C13: once a room has left Lobby (it is Active or Complete) no step adds a
\* player id to it: a join_room by a socket that is not in the room leaves the
\* player list as it is (socket route).
C13_NoNewPlayerAfterLobby ==
    [][\A rid \in RoomIds :
          (srooms[rid] # None /\ ~IsLobby(srooms[rid][1])) =>
              /\ srooms'[rid] # None
              /\ \A p \in Sockets :
                    FindIndex(srooms'[rid][1].players, p) > 0 =>
                        FindIndex(srooms[rid][1].players, p) > 0]_vars

\* C14: a handler that processes a ready or a submit for a room id that is
\* not stored never stores a room under that id, and it does not answer 200.
C14_OnlyJoinCreatesRoom ==
    [][\A h \in Handlers, rid \in RoomIds :
          (/\ req[h].roomId = rid
           /\ req[h].action \in {"ready", "submit"}
           /\ pc'[h] # pc[h]
           /\ store[rid] = None) =>
              /\ store'[rid] = None
              /\ pc'[h] = "idle" => last'.status # 200]_vars

\* C15: a GET for a room id that is not stored is answered with a not-found
\* status (404) and stores no room under that id.
C15_GetDoesNotCreateRoom ==
    [][\A h \in Handlers, rid \in RoomIds :
          (/\ req[h].roomId = rid
           /\ req[h].action = "get"
           /\ pc'[h] # pc[h]
           /\ store[rid] = None) =>
              /\ store'[rid] = None
              /\ pc'[h] = "idle" => last'.status = 404]_vars

\* C16: in a run without overlapping requests, when a GET has just been
\* answered for a room that no player has joined yet, the join that comes
\* next works on a room whose targetScore is the value the join carries (a
\* value >= 1), or 5 when it carries none.
C16_TargetScoreOfFirstJoin ==
    [][\A h \in Handlers, rid \in RoomIds, r \in JoinRequests :
          (/\ r.targetScore = Undefined \/ r.targetScore >= 1
           /\ overlaps = 0
           /\ last = [action |-> "get", status |-> 200]
           /\ store[rid] # None
           /\ store[rid][1].players = <<>>
           /\ LoadFound(h, rid, r)) =>
              st'[h][1].targetScore =
                  IF r.targetScore = Undefined THEN DEFAULT_TARGET ELSE r.targetScore]_vars

\* C17: the targetScore of every stored room is >= 1, and no step changes the
\* targetScore of a stored room.
C17_TargetScoreFixed ==
    /\ [](\A rid \in RoomIds : store[rid] # None => store[rid][1].targetScore >= 1)
    /\ [][\A rid \in RoomIds :
            store[rid] # None =>
                /\ store'[rid] # None
                /\ store'[rid][1].targetScore = store[rid][1].targetScore]_vars

\* Scenario A through the branches of POST: targetScore 3, alice and bob join
\* and both mark ready.
ScenarioA ==
    LET p  == <<1, 2, 3, 4>>
        s0 == InitialState("r1", 3, [i \in 1..QUEUE_SIZE |-> p])
        j1 == JoinResult(s0, "alice", "x")
        j2 == JoinResult(j1.state, "bob", "y")
        r1 == ReadyResult(j2.state, "alice", <<>>)
        r2 == ReadyResult(r1.state, "bob", <<>>)
    IN  /\ IsLobby(r1.state)
        /\ r2.status = 200
        /\ IsActivePhase(r2.state)
        /\ Len(r2.state.currentPuzzle) = 4
        /\ Len(r2.state.puzzleQueue) >= 1

\* C18: in every stored room that is Active, currentPuzzle holds 4 numbers
\* and puzzleQueue holds at least 1 puzzle; Scenario A ends in such a room.
C18_ActiveHasPuzzle ==
    /\ ScenarioA
    /\ \A rid \in RoomIds :
          (store[rid] # None /\ IsActivePhase(store[rid][1])) =>
              /\ Len(store[rid][1].currentPuzzle) = 4
              /\ Len(store[rid][1].puzzleQueue) >= 1

\* C18 witness: in a run without overlapping requests the ready that starts
\* the game has just been answered: two players, both ready, no score yet.
C18_Witness ==
    /\ overlaps = 0
    /\ last = [action |-> "ready", status |-> 200]
    /\ \E rid \in RoomIds :
          /\ store[rid] # None
          /\ IsActivePhase(store[rid][1])
          /\ Len(store[rid][1].players) = 2
          /\ TotalScore(store[rid][1].players) = 0
          /\ Len(store[rid][1].currentPuzzle) = 4

\* C19: the ready that starts the game and every accepted submit that does
\* not end it store a puzzleQueue as long as the one the handler loaded, when
\* that one was not empty: the puzzle popped is replaced by a new one.
C19_PopIsRefilled ==
    [][\A h \in Handlers :
          LET s == st[h][1]
              a == store'[req[h].roomId][1]
          IN  /\ (Accepts(h, "ready") /\ ~s.isActive /\ a.isActive
                    /\ Len(s.puzzleQueue) > 0) =>
                      Len(a.puzzleQueue) = Len(s.puzzleQueue)
              /\ (Accepts(h, "submit") /\ ~a.gameOver
                    /\ Len(s.puzzleQueue) > 0) =>
                      Len(a.puzzleQueue) = Len(s.puzzleQueue)]_vars

\* C20: a POST that is answered with an error stores nothing in the step that
\* answers it, and a join whose first saveState has stored the new player
\* list is not answered with an error afterwards.
C20_ErrorLeavesStoreUnchanged ==
    [][\A h \in Handlers :
          (/\ pc[h] # "idle"
           /\ pc'[h] = "idle"
           /\ req[h].action # "get"
           /\ last'.status # 200) =>
              /\ store' = store
              /\ pc[h] # "saved"]_vars

\* C21: a join, ready or submit is never answered with a server error (500):
\* a failure of loadState or saveState does not make the action fail.
C21_BackendFailureTolerated ==
    last.action \in {"join", "ready", "submit"} => last.status # 500

C24_CommitAdvancesRevision ==
    [][\A h \in Handlers, action \in {"join", "ready", "submit"} :
          Accepts(h, action) => store'[req[h].roomId] # store[req[h].roomId]]_vars

\* C25: the polling client never replaces the state it shows with an older
\* snapshot of the room: from one shown snapshot to the next the revision
\* of the room never goes down.
C25_NeverShowsOlderSnapshot ==
    [][(hook.state # None /\ hook'.state # None) =>
            hook'.state[1].rev >= hook.state[1].rev]_vars

\* C26: a client in local fallback mode returns to the server once the
\* server is reachable again: if the server stays reachable from some point
\* on, the client is out of local mode from some point on.
C26_LeavesLocalMode == <>[]up => <>[](~hook.useLocalMode)

\* C27: if the server stays unreachable, the client eventually enters local
\* fallback mode, whether or not polls succeeded before and whether or not
\* the user acts.  Stated for the runs in which the poll loop keeps going
\* and, from some point on, a state is shown and no join is running.
C27_EntersLocalMode ==
    (/\ <>[](~up /\ hook.state # None /\ ~hook.isJoining)
     /\ []<>(pollpc = "timer")) => <>(hook.useLocalMode)

\* C28: a join, ready or submit that fails because the backend is
\* unavailable (503, timeout, network error) is applied to the local room,
\* whatever the state of the client.
C28_FailedActionAppliedLocally ==
    [][\A action \in UserActions :
          (actionQueue[action] # NoAction /\ actionQueue'[action] = NoAction /\ ~up) =>
              localRoomStore' = LocalRequest(localRoomStore, action)]_vars

\* The game two rooms show: who plays, who is ready, the scores (a player
\* without a score counts as 0), isActive, gameOver and the winner.
Game(state) ==
    [players |-> [i \in 1..Len(state.players) |->
                     [id |-> state.players[i].id,
                      ready |-> state.players[i].ready,
                      score |-> IF state.players[i].score = Undefined THEN 0
                                ELSE state.players[i].score]],
     isActive |-> state.isActive,
     gameOver |-> state.gameOver,
     winner |-> state.winner]

\* C29: handleLocalRequest applies the rules of the route: a ready or a
\* submit the route accepts on a room leads to the same players, ready
\* flags, scores, isActive, gameOver and winner when the client applies it
\* locally to the same room.
C29_LocalFollowsServerRules ==
    [][\A h \in Handlers, action \in {"ready", "submit"} :
          Accepts(h, action) =>
              Game(HandleLocalRequest(st[h][1], req[h]))
                  = Game(store'[req[h].roomId][1])]_vars

\* C30: every fetchState call settles, so a poll that awaits fetchState
\* always goes on to schedule its next poll.
C30_PollGoesOn == (pollpc = "awaiting") ~> (pollpc = "timer")


\* A poll reaches "setTimeout(poll, delay)": the local poll, the poll whose
\* fetchState call resolved (unless it went into its rejoin branch) or
\* rejected.
PollSchedules ==
    \/ PollLocal
    \/ /\ pollpc = "awaiting"
       /\ \/ FetchRejects
          \/ \E pollFirst \in BOOLEAN :
                FetchResolves(pollFirst) /\ zombie'.pc # "joining"

\* C31: the delay a poll schedules is POLL_INTERVAL when the client counts
\* no consecutive error afterwards (INITIAL_POLL_DELAY while no poll was
\* applied before), and min(1000 * 1.5^n, 5000) when the client counts
\* n >= 1 consecutive errors afterwards; it never exceeds 5000.
C31_DelayFollowsErrors ==
    [][(PollSchedules /\ ~hook.useLocalMode) =>
          LET n == hook'.consecutiveErrors IN
          /\ Delay(hook) <= 5000
          /\ n = 0 => Delay(hook) = IF hook.isInitialPoll
                                    THEN INITIAL_POLL_DELAY ELSE POLL_INTERVAL
          /\ (n >= 1 /\ ~hook.isInitialPoll) =>
                Delay(hook) = Min((1000 * Pow(3, n)) \div Pow(2, n), 5000)]_vars


\* C32: in the push server a disconnect removes the socket's player from its
\* room and from no other player's place; the room that becomes empty is
\* deleted, whatever its phase; and the join that finds no room under a room
\* id creates a Lobby room whose only player is the joiner, with score 0,
\* no winner and no last solution.
C32_DisconnectRemovesAndDeletes ==
    [][/\ \A sock \in PushSockets, rid \in RoomIds :
             (/\ sock \notin pgone
              /\ sock \in pgone'
              /\ prooms[rid] # None
              /\ FindIndex(prooms[rid][1].players, sock) > 0) =>
                 IF Len(prooms[rid][1].players) = 1
                 THEN prooms'[rid] = None
                 ELSE /\ prooms'[rid] # None
                      /\ prooms'[rid][1].players =
                             RemoveAt(prooms[rid][1].players,
                                      FindIndex(prooms[rid][1].players, sock))
       /\ \A rid \in RoomIds :
             (prooms[rid] = None /\ prooms'[rid] # None) =>
                 LET room == prooms'[rid][1] IN
                 /\ PushPhase(room) = "Lobby"
                 /\ Len(room.players) = 1
                 /\ room.players[1].score = 0
                 /\ ~room.players[1].ready
                 /\ room.players[1].id \notin pgone
                 /\ room.creatorId = room.players[1].id
                 /\ room.winner = Null
                 /\ room.lastSolution = None]_vars

\* C32 witness: a room whose game was over has been deleted by the
\* disconnect of its last player, and a later join has created the room
\* again: one player, who was not in the deleted room.
C32_Witness ==
    /\ "Complete" \in pdeleted
    /\ \E rid \in RoomIds :
          /\ prooms[rid] # None
          /\ PushPhase(prooms[rid][1]) = "Lobby"
          /\ Len(prooms[rid][1].players) = 1
          /\ prooms[rid][1].players[1].score = 0


\* C33: after a disconnect of a player that leaves the room non-empty,
\* creatorId is the id of a player of the room (the first of the remaining
\* players when the creator left, the same id otherwise), and isActive is
\* what it was.
C33_CreatorStaysInRoom ==
    [][\A sock \in RoomSockets, rid \in RoomIds :
          (/\ sock \notin closed
           /\ sock \in closed'
           /\ rooms[rid] # None
           /\ FindIndex(rooms[rid][1].players, sock) > 0
           /\ rooms'[rid] # None) =>
              LET before == rooms[rid][1]
                  after == rooms'[rid][1]
              IN  /\ FindIndex(after.players, after.creatorId) > 0
                  /\ after.creatorId = IF before.creatorId = sock
                                       THEN after.players[1].id
                                       ELSE before.creatorId
                  /\ after.isActive = before.isActive]_vars


\* C35: in the join-room server, once winner is set, a player-ready or
\* puzzle-solved event changes no score and not the winner, and the room
\* is not active afterwards.
C35_WinnerIsFinal ==
    [][\A rid \in RoomIds :
          (/\ rooms[rid] # None
           /\ rooms[rid][1].winner # Absent
           /\ \E sock \in RoomSockets : PlayerReady(sock) \/ PuzzleSolved(sock)) =>
              /\ rooms'[rid] # None
              /\ rooms'[rid][1].winner = rooms[rid][1].winner
              /\ Len(rooms'[rid][1].players) = Len(rooms[rid][1].players)
              /\ \A i \in 1..Len(rooms[rid][1].players) :
                    rooms'[rid][1].players[i].score = rooms[rid][1].players[i].score
              /\ ~rooms'[rid][1].isActive]_vars


\* The room id a step of handler h is addressed to: the id of the request
\* the handler takes in the step, or of the request it is processing.
AddressedTo(h) == IF pc[h] = "idle" THEN req'[h].roomId ELSE req[h].roomId

\* C34: a step of a handler on a request addressed to one room id (the
\* load, the creation, the rejection or one of the saves of a join, ready,
\* submit or GET) changes what Redis stores under no other room id, also
\* while another handler is processing a request for another room.
C34_RoomsAreIndependent ==
    [][/\ \A h \in Handlers :
          (pc'[h] # pc[h] \/ req'[h] # req[h]) =>
              \A rid \in AllRoomIds \ {AddressedTo(h)} : store'[rid] = store[rid]
       /\ (\A h \in Handlers : pc'[h] = pc[h] /\ req'[h] = req[h]) =>
              store' = store]_vars

\* C34 witness: a game runs in room r1 with a score counted, room r2 holds
\* bob who is ready, and a request overlapped another one on the way.
C34_Witness ==
    /\ overlaps = 1
    /\ last = [action |-> "submit", status |-> 200]
    /\ store["r1"] # None /\ store["r2"] # None
    /\ IsActivePhase(store["r1"][1])
    /\ TotalScore(store["r1"][1].players) = 1
    /\ Len(store["r2"][1].players) = 1
    /\ store["r2"][1].players[1].ready
    /\ store["r2"][1].roomId = "r2"


\* C36: while every GET and POST of the client is answered 200, the client
\* is not in local mode (so every poll goes through fetchState).
C36_LocalModeOnlyAfterFailure == ~hook.useLocalMode

\* C37: a 400 answer to an action is only reported: it neither switches the
\* client into local mode nor applies the rejected action to the local room.
C37_RejectionOnlyReported ==
    [][\A action \in UserActions :
          PostFails(action, "rejected") =>
              /\ hook'.useLocalMode = hook.useLocalMode
              /\ localRoomStore' = localRoomStore]_vars

\* C39: the request queues keep no entry of a settled request: when a
\* makeRequest call settles, at once in local mode or with the answer or the
\* failure of its POST, the entry of its action is removed from actionQueue.
C39_EntryRemovedWhenSettled ==
    [][\A action \in UserActions :
          (\/ RequestLocal(action)
           \/ PostOk(action)
           \/ \E kind \in {"rejected", "503", "neterr"} : PostFails(action, kind)) =>
              actionQueue'[action] = NoAction]_vars

\* C38: once a poll has received a snapshot with gameOver = true and has
\* stopped the polling (isPolling is false), the poll loop issues no further
\* GET: a GET is sent only by the fetchState call of join().
C38_NoGetAfterGameOver ==
    [][(~hook.isPolling /\ fetchQueue.phase # "sent"
                       /\ fetchQueue'.phase = "sent") => JoinFetch]_vars

====
